---- MODULE Spec2Model ----
(***************************************************************************)
(* Model of the MCP connection facade (MCPManager) of LibreChat:           *)
(* singleton life cycle, app-scope and user-scope connection resolution,   *)
(* tool calls, prompt fetches and idle eviction.                           *)
(*                                                                         *)
(* MCPManager is translated from its source.  ConnectionsRepository,       *)
(* UserConnectionManager, MCPConnection and the servers registry are not   *)
(* part of the sources at hand; they are modelled from the specification   *)
(* text (sections 3, 4.1-4.3 and 5).                                       *)
(*                                                                         *)
(* Two further modules of the server are modelled beside it, each from its *)
(* source: the Statsig event logger (statsigLogger.js) and the workspace   *)
(* cookie store of the embedded-auth middleware (embeddedAuth.js).         *)
(***************************************************************************)
EXTENDS Integers, Sequences, FiniteSets, TLC

VARIABLES
  instance,          \* MCPManager.instance: 0 = null, else ordinal of the manager object
  created,           \* number of `new MCPManager()` evaluated so far
  appReady,          \* this.appConnections has been assigned by initialize
  initFailed,        \* MCPServersInitializer.initialize rejected
  registry,          \* MCPServersRegistry: server name -> current config
  reloads,           \* number of registry reloads so far
  conns,             \* every MCPConnection ever established, by instance id
  appConnections,    \* ConnectionsRepository cache: server -> connection id (0 = none)
  userConnections,   \* UserConnectionManager cache: user -> server -> connection id
  userLastActivity,  \* user -> time of last activity (NoTime = no entry)
  now,               \* the clock (Date.now())
  tasks,             \* the asynchronous calls in progress, one record per task
  lastApp,           \* history: server -> app connection last handed to a user-less getConnection
  sdkInstalled,      \* statsigLogger: require('@statsig/statsig-node-core') resolves
  statsigInstance,   \* statsigLogger: "null", or the state of the Statsig object held
  StatsigUserClass,  \* statsigLogger: "null", or "class" once the SDK has been loaded
  sdkUnavailable,    \* statsigLogger: the SDK was found missing
  logged,            \* statsigLogger history: the last logEvent call and its outcome
  workspaceCookieStore, \* embeddedAuth: user id -> stored entry {cookie, timestamp}
  storeCalls,        \* embeddedAuth history: user id -> the last storeWorkspaceCookie call
  lookup             \* embeddedAuth history: the last getStoredWorkspaceCookie call and its result

mcpVars == << instance, created, appReady, initFailed, registry, reloads, conns,
              appConnections, userConnections, userLastActivity, now, tasks, lastApp >>
statsigVars == << sdkInstalled, statsigInstance, StatsigUserClass, sdkUnavailable, logged >>
cookieVars == << workspaceCookieStore, storeCalls, lookup >>

(* The state of the modules an MCPManager step does not touch *)
otherVars == << statsigVars, cookieVars >>

vars == << mcpVars, otherVars >>

----------------------------------------------------------------------------
(* Bounds *)

MaxConns == 2
MaxTime == 2
MaxReloads == 1
MaxCreated == 2
MaxJar == 2
MaxMessages == 2
MaxServers == 2
MaxNames == 2

(* Idle threshold of the user connection manager, in clock ticks *)
IdleTimeout == 1

Servers == {"s1", "s2"}
UserIds == {"u1", "u2"}
NoUser == "nouser"        \* args.user is undefined
AnonUser == "anon"        \* a user object without an id
UserArgs == UserIds \cup {NoUser, AnonUser}
Tasks == {"t1", "t2"}
NoTime == -1

----------------------------------------------------------------------------
(* Headers and cookies.  A string is a sequence of tokens; a header map is *)
(* a set of <<name, value>> pairs with distinct names.                     *)

NoHeaders == {}
StaticHeaders == {<<"X-Key", <<"k">>>>}
CookieHeaders == {<<"X-Key", <<"k">>>>, <<"Cookie", <<"old">>>>}

HeaderNamesOf(h) == {p[1] : p \in h}

(* Object.assign(target, source) on header maps *)
ObjectAssign_KeepTarget(target, source) ==
  {p \in source : p[1] \notin HeaderNamesOf(target)} \cup target
ObjectAssign(target, source) ==
  {p \in target : p[1] \notin HeaderNamesOf(source)} \cup source

NoBody == [has |-> FALSE, jar |-> << >>]
BodyWith(jar) == [has |-> TRUE, jar |-> jar]
RequestBodies == {NoBody, BodyWith(<< <<"sid", "abc">> >>), BodyWith(<< <<"sid", "xyz">> >>)}

JoinCookies_NoSeparator(jar) ==
  IF jar = << >> THEN << >>
  ELSE [i \in 1..(3 * Len(jar)) |->
          LET e == jar[((i - 1) \div 3) + 1] IN
          CASE (i - 1) % 3 = 0 -> e[1] [] (i - 1) % 3 = 1 -> "=" [] OTHER -> e[2]]

RECURSIVE JoinCookies(_)
(* Object.entries(mcpCookies).map(([k, v]) => `${k}=${v}`).join('; ') *)
JoinCookies(jar) ==
  IF jar = << >> THEN << >>
  ELSE IF Len(jar) = 1 THEN << jar[1][1], "=", jar[1][2] >>
  ELSE << jar[1][1], "=", jar[1][2], "; " >> \o JoinCookies(Tail(jar))

(* The same expression in getPrompt, step by step: Object.entries(mcpCookies), *)
(* .map(([key, value]) => `${key}=${value}`), .join('; ')                      *)
TemplateKeyValue(entry) == << entry[1], "=", entry[2] >>
MapEntries(jar) == [i \in 1..Len(jar) |-> TemplateKeyValue(jar[i])]

RECURSIVE ArrayJoin(_, _)
ArrayJoin(items, sep) ==
  IF items = << >> THEN << >>
  ELSE IF Len(items) = 1 THEN items[1]
  ELSE items[1] \o << sep >> \o ArrayJoin(Tail(items), sep)

JoinPromptCookies(jar) == ArrayJoin(MapEntries(jar), "; ")

----------------------------------------------------------------------------
(* Server configurations *)

(* A config's declared tool functions and its instructions text: absent, or given *)
NoToolFunctions == [has |-> FALSE, map |-> {}]
ToolFunctions(map) == [has |-> TRUE, map |-> map]
NoInstructions == [has |-> FALSE, text |-> << >>]
Instructions(text) == [has |-> TRUE, text |-> text]

NoCfg == [ver |-> 0, oauth |-> FALSE, hdr |-> NoHeaders,
          toolFunctions |-> NoToolFunctions, serverInstructions |-> NoInstructions]
Cfg(v, o, h) == [ver |-> v, oauth |-> o, hdr |-> h,
                 toolFunctions |-> NoToolFunctions, serverInstructions |-> NoInstructions]
AppKind == <<FALSE, NoHeaders>>
AppKindH == <<FALSE, StaticHeaders>>
UserKind == <<TRUE, NoHeaders>>
Removed == <<FALSE, {<<"removed", << >> >>}>>

AppCfg == Cfg(1, FALSE, NoHeaders)
AppCfgH == Cfg(1, FALSE, StaticHeaders)
AppCfgC == Cfg(1, FALSE, CookieHeaders)
UserCfg == Cfg(1, TRUE, NoHeaders)
Registry(c1, c2) == [s \in Servers |-> IF s = "s1" THEN c1 ELSE c2]

(* The configurations the initializer is given *)
InitialRegistries ==
  { Registry(AppCfg, UserCfg), Registry(UserCfg, UserCfg), Registry(AppCfg, NoCfg),
    Registry(AppCfg, AppCfg) }

(* A server is served at app scope when it is configured and needs no per-user authentication *)
AppLevel(s) == registry[s] # NoCfg /\ ~registry[s].oauth

----------------------------------------------------------------------------
(* Results of calls: a connection, a value (with its text), null, or an error *)
(* with the server (n) and the tool (tool) its message names                  *)
Pending == [k |-> "pending", c |-> 0, e |-> "", n |-> "", tool |-> "", text |-> << >>]
ConnRes(c) == [k |-> "conn", c |-> c, e |-> "", n |-> "", tool |-> "", text |-> << >>]
ErrAbout(e, n) == [k |-> "error", c |-> 0, e |-> e, n |-> n, tool |-> "", text |-> << >>]
ErrRes(e) == ErrAbout(e, "")
ErrAboutTool(e, n, tool) == [ErrAbout(e, n) EXCEPT !.tool = tool]
NullRes == [k |-> "null", c |-> 0, e |-> "", n |-> "", tool |-> "", text |-> << >>]
OkRes == [k |-> "ok", c |-> 0, e |-> "", n |-> "", tool |-> "", text |-> << >>]
ToolsRes(c) == [k |-> "tools", c |-> c, e |-> "", n |-> "", tool |-> "", text |-> << >>]
ContentRes(text) == [OkRes EXCEPT !.text = text]
MgrRes(i) == [k |-> "manager", c |-> i, e |-> "", n |-> "", tool |-> "", text |-> << >>]

(* The arguments getUserConnection is called with *)
NoArgs == [s |-> "s1", u |-> NoUser, fn |-> FALSE]

(* A task that is not inside a call *)
NoCall == [op |-> "none", pc |-> "idle", s |-> "s1", u |-> NoUser, fn |-> FALSE, tool |-> "",
           body |-> NoBody, app |-> -1, evicted |-> 0, prev |-> 0, ucalls |-> 0, ua |-> NoArgs,
           ures |-> Pending, conn |-> 0, sent |-> NoHeaders, sweeps |-> 0, swept |-> {},
           raised |-> Pending, names |-> [given |-> FALSE, list |-> << >>], configs |-> << >>,
           value |-> {}, gen |-> 0, result |-> [present |-> FALSE, hasMessages |-> FALSE, messages |-> << >>],
           msgs |-> << >>, options |-> [given |-> FALSE, obj |-> << >>], request |-> << >>,
           res |-> Pending]

NewCall(op, s, u, fn, body, pc) ==
  [NoCall EXCEPT !.op = op, !.pc = pc, !.s = s, !.u = u, !.fn = fn, !.body = body]

HasId(u) == u \in UserIds

----------------------------------------------------------------------------
(* Connections *)

ConnIds == 1..MaxConns
NoConn == [srv |-> "s1", owner |-> "none", ver |-> 0, up |-> FALSE, hdr |-> NoHeaders]
Used == {c \in ConnIds : conns[c].owner # "none"}
NextId == Cardinality(Used) + 1

(* A connection that has been closed stays closed: no request can go out on it any   *)
(* more, so only its identity, its server and its owner are kept                     *)
Closed(conn) == [srv |-> conn.srv, owner |-> conn.owner, ver |-> 0, up |-> FALSE, hdr |-> NoHeaders]

(* A connection established for `owner` from the current configuration of s. The     *)
(* configuration identity is kept for app-scope connections, which are revalidated   *)
(* against it; nothing reads it of a user-scope connection                           *)
NewConn(s, owner) ==
  [srv |-> s, owner |-> owner, ver |-> IF owner = "app" THEN registry[s].ver ELSE 0,
   up |-> TRUE, hdr |-> registry[s].hdr]

DisconnectAll(cs, ids) == [c \in ConnIds |-> IF c \in ids THEN Closed(cs[c]) ELSE cs[c]]
Disconnect(cs, c) == DisconnectAll(cs, {c})

(* MCPConnection.setRequestHeaders(headers): the connection's request headers become `headers` *)
SetRequestHeaders(cs, c, headers) == IF cs[c].up THEN [cs EXCEPT ![c].hdr = headers] ELSE cs

LiveApp(s) == {c \in ConnIds : conns[c].owner = "app" /\ conns[c].srv = s /\ conns[c].up}
LiveUser(u, s) == {c \in ConnIds : conns[c].owner = u /\ conns[c].srv = s /\ conns[c].up}

EmptyCache == [s \in Servers |-> 0]

----------------------------------------------------------------------------
(* statsigLogger.js: the Statsig event logger *)

(* A logEvent call: how metadata and opts were passed, and how the call ended *)
NoLog == [called |-> FALSE, metadata |-> "omitted", opts |-> "omitted",
          threw |-> FALSE, reached |-> FALSE, sent |-> FALSE]
ArgKinds == {"omitted", "null", "object"}

InitLogger(installed) ==
  /\ sdkInstalled = installed
  /\ statsigInstance = "null"
  /\ StatsigUserClass = "null"
  /\ sdkUnavailable = FALSE
  /\ logged = NoLog

(* loadSDK(): its return value, and StatsigUserClass and sdkUnavailable after it *)
loadSDK(cls, unavailable) ==
  IF unavailable THEN [ok |-> FALSE, cls |-> cls, unavailable |-> unavailable]
  ELSE IF cls # "null" THEN [ok |-> TRUE, cls |-> cls, unavailable |-> unavailable]
  ELSE IF sdkInstalled THEN [ok |-> TRUE, cls |-> "class", unavailable |-> unavailable]
  ELSE [ok |-> FALSE, cls |-> cls, unavailable |-> TRUE]

(* initialize() up to `await statsigInstance.initialize()`: nothing without an API *)
(* key or without the SDK; otherwise the Statsig object is held from here on       *)
statsigInitialize(keySet) ==
  /\ statsigInstance # "initializing"
  /\ LET l == IF keySet THEN loadSDK(StatsigUserClass, sdkUnavailable)
              ELSE [ok |-> FALSE, cls |-> StatsigUserClass, unavailable |-> sdkUnavailable]
     IN  /\ StatsigUserClass' = l.cls
         /\ sdkUnavailable' = l.unavailable
         /\ statsigInstance' = IF l.ok THEN "initializing" ELSE statsigInstance
  /\ UNCHANGED << mcpVars, cookieVars, sdkInstalled, logged >>

(* `await statsigInstance.initialize()` resolves *)
statsigInitialized ==
  /\ statsigInstance = "initializing"
  /\ statsigInstance' = "ready"
  /\ UNCHANGED << mcpVars, cookieVars, sdkInstalled, StatsigUserClass, sdkUnavailable, logged >>

(* ... or rejects: the catch resets statsigInstance *)
statsigInitializeFails ==
  /\ statsigInstance = "initializing"
  /\ statsigInstance' = "null"
  /\ UNCHANGED << mcpVars, cookieVars, sdkInstalled, StatsigUserClass, sdkUnavailable, logged >>

(* shutdown(): whether the SDK's shutdown resolves or rejects, the instance is dropped *)
shutdown ==
  /\ statsigInstance # "null"
  /\ statsigInstance' = "null"
  /\ UNCHANGED << mcpVars, cookieVars, sdkInstalled, StatsigUserClass, sdkUnavailable, logged >>

(* The statements of logEvent that are outside its try block: Object.entries(metadata), *)
(* the reads of opts.email, opts.firm_name and opts.role, and `new StatsigUserClass`.   *)
(* A parameter default applies to an omitted (undefined) argument only, not to null.    *)
ThrowsBeforeTry(metadata, opts, ctorThrows) ==
  metadata = "null" \/ opts = "null" \/ ctorThrows

(* logEvent(userId, eventName, value, metadata, opts); ctorThrows and sdkThrows tell *)
(* what the SDK's user constructor and its logEvent do in this call                 *)
logEvent(metadata, opts, ctorThrows, sdkThrows) ==
  LET call == [NoLog EXCEPT !.called = TRUE, !.metadata = metadata, !.opts = opts] IN
  /\ IF statsigInstance = "null"
     THEN /\ logged' = call
          /\ UNCHANGED << StatsigUserClass, sdkUnavailable >>
     ELSE LET l == loadSDK(StatsigUserClass, sdkUnavailable) IN
          /\ StatsigUserClass' = l.cls
          /\ sdkUnavailable' = l.unavailable
          /\ IF ~l.ok THEN logged' = call
             ELSE IF ThrowsBeforeTry(metadata, opts, ctorThrows)
             THEN logged' = [call EXCEPT !.threw = TRUE]
             ELSE IF sdkThrows THEN logged' = [call EXCEPT !.reached = TRUE]
             ELSE \E sent \in (IF statsigInstance = "ready" THEN {TRUE} ELSE BOOLEAN) :
                    logged' = [call EXCEPT !.reached = TRUE, !.sent = sent]
  /\ UNCHANGED << mcpVars, cookieVars, sdkInstalled, statsigInstance >>

----------------------------------------------------------------------------
(* embeddedAuth.js: the workspace cookie store (the later revision of the file) *)

(* Time is counted in units of 2.5 minutes: CACHE_TTL = 5 * 60 * 1000 ms is 2 units *)
CACHE_TTL == 2

(* Cookie strings, as sequences of tokens *)
WorkspaceKeyPrefix == "_workspacex_key="
Cookies == { << >>, << "abc" >>, << WorkspaceKeyPrefix, "abc" >>, << "xyz" >> }

NoEntry == [has |-> FALSE, cookie |-> << >>, timestamp |-> 0]
NoLookup == [called |-> FALSE, u |-> "u1", null |-> TRUE, cookie |-> << >>, at |-> 0, last |-> NoEntry]

InitCookieStore ==
  /\ workspaceCookieStore = [u \in UserIds |-> NoEntry]
  /\ storeCalls = [u \in UserIds |-> NoEntry]
  /\ lookup = NoLookup

(* `if (cookie && cookie.startsWith('_workspacex_key=')) cookieValue = cookie.substring(...)` *)
CookieValue(cookie) ==
  IF cookie # << >> /\ Head(cookie) = WorkspaceKeyPrefix THEN Tail(cookie) ELSE cookie

(* storeWorkspaceCookie(userId, cookie) *)
storeWorkspaceCookie(u, cookie) ==
  /\ workspaceCookieStore' = [workspaceCookieStore EXCEPT ![u] =
        [has |-> TRUE, cookie |-> CookieValue(cookie), timestamp |-> now]]
  /\ storeCalls' = [storeCalls EXCEPT ![u] = [has |-> TRUE, cookie |-> cookie, timestamp |-> now]]
  /\ UNCHANGED << mcpVars, statsigVars, lookup >>

(* `stored && Date.now() - stored.timestamp < CACHE_TTL` *)
Unexpired_AtThreshold(stored) == stored.has /\ now - stored.timestamp <= CACHE_TTL
Unexpired(stored) == stored.has /\ now - stored.timestamp < CACHE_TTL

(* workspaceCookieStore.get(userId) *)
StoredFor(u) == workspaceCookieStore[u]

(* getStoredWorkspaceCookie(userId) *)
getStoredWorkspaceCookie(u) ==
  /\ LET stored == StoredFor(u) IN
       lookup' = [called |-> TRUE, u |-> u, null |-> ~Unexpired(stored),
                  cookie |-> IF Unexpired(stored) THEN stored.cookie ELSE << >>,
                  at |-> now, last |-> storeCalls[u]]
  /\ UNCHANGED << mcpVars, statsigVars, workspaceCookieStore, storeCalls >>

----------------------------------------------------------------------------
(* Initial state: no manager, empty registry, no connection *)

InitManagerRest ==
  /\ reloads = 0
  /\ conns = [c \in ConnIds |-> NoConn]
  /\ appConnections = EmptyCache
  /\ userConnections = [u \in UserIds |-> EmptyCache]
  /\ userLastActivity = [u \in UserIds |-> NoTime]
  /\ now = 0
  /\ tasks = [t \in Tasks |-> NoCall]
  /\ lastApp = EmptyCache

InitRest ==
  /\ InitManagerRest
  /\ InitLogger(TRUE)
  /\ InitCookieStore

(* Before createInstance *)
InitLife ==
  /\ instance = 0
  /\ created = 0
  /\ appReady = FALSE
  /\ initFailed = FALSE
  /\ registry = [s \in Servers |-> NoCfg]
  /\ InitRest

(* After a successful createInstance *)
Init ==
  /\ instance = 1
  /\ created = 1
  /\ appReady = TRUE
  /\ initFailed = FALSE
  /\ registry \in InitialRegistries
  /\ InitRest

Free(t) == tasks[t].pc = "idle"

(* A call that has returned or thrown (pc = "done") hands its result to its caller *)
(* before anything else happens: every other step is taken when no result is      *)
(* waiting to be handed over                                                      *)
Quiet == \A t \in Tasks : tasks[t].pc # "done"

return(t) ==
  /\ tasks[t].pc = "done"
  /\ UNCHANGED otherVars
  /\ tasks' = [tasks EXCEPT ![t] = NoCall]
  /\ UNCHANGED << instance, created, appReady, initFailed, registry, reloads, conns,
                  appConnections, userConnections, userLastActivity, now, lastApp >>

----------------------------------------------------------------------------
(* The singleton: createInstance, initialize, getInstance *)

(* createInstance's guard: `if (MCPManager.instance) throw` *)
AlreadyCreated_Never(inst) == FALSE
AlreadyCreated(inst) == inst # 0

(* createInstance up to its await: throws, or evaluates `new MCPManager()` and starts initialize. *)
(* A new manager object has empty user maps and no app repository yet.                          *)
createInstance(t) ==
  /\ Quiet
  /\ UNCHANGED otherVars
  /\ Free(t)
  /\ IF AlreadyCreated(instance)
     THEN /\ tasks' = [tasks EXCEPT ![t] =
                 [NoCall EXCEPT !.op = "createInstance", !.pc = "done",
                                !.res = ErrRes("AlreadyInitialized")]]
          /\ UNCHANGED << instance, created, appReady, appConnections, userConnections,
                          userLastActivity >>
     ELSE /\ created < MaxCreated
          /\ created' = created + 1
          /\ instance' = created + 1
          /\ appReady' = FALSE
          /\ appConnections' = EmptyCache
          /\ userConnections' = [u \in UserIds |-> EmptyCache]
          /\ userLastActivity' = [u \in UserIds |-> NoTime]
          /\ tasks' = [tasks EXCEPT ![t] =
                 [NoCall EXCEPT !.op = "createInstance", !.pc = "initialize"]]
  /\ UNCHANGED << initFailed, registry, reloads, conns, now, lastApp >>


(* initialize resolves: the registry is populated, then the app repository is constructed; *)
(* createInstance returns MCPManager.instance                                              *)
initialize(t) ==
  /\ Quiet
  /\ UNCHANGED otherVars
  /\ tasks[t].pc = "initialize"
  /\ \E r \in InitialRegistries : registry' = r
  /\ appReady' = TRUE
  /\ appConnections' = EmptyCache
  /\ tasks' = [tasks EXCEPT ![t] = [@ EXCEPT !.pc = "done", !.res = MgrRes(instance)]]
  /\ UNCHANGED << instance, created, initFailed, reloads, conns, userConnections,
                  userLastActivity, now, lastApp >>

(* initialize rejects (invalid configuration): createInstance rejects with that error *)
initializeFails(t) ==
  /\ Quiet
  /\ UNCHANGED otherVars
  /\ tasks[t].pc = "initialize"
  /\ initFailed' = TRUE
  /\ tasks' = [tasks EXCEPT ![t] = [@ EXCEPT !.pc = "done", !.res = ErrRes("InitError")]]
  /\ UNCHANGED << instance, created, appReady, registry, reloads, conns, appConnections,
                  userConnections, userLastActivity, now, lastApp >>

getInstance(t) ==
  /\ Quiet
  /\ UNCHANGED otherVars
  /\ Free(t)
  /\ tasks' = [tasks EXCEPT ![t] =
        [NoCall EXCEPT !.op = "getInstance", !.pc = "done",
                       !.res = IF instance = 0 THEN ErrRes("NotInitialized") ELSE MgrRes(instance)]]
  /\ UNCHANGED << instance, created, appReady, initFailed, registry, reloads, conns,
                  appConnections, userConnections, userLastActivity, now, lastApp >>

----------------------------------------------------------------------------
(* The environment: configuration reloads, transport drops, the clock *)

(* The configuration of server s is replaced by one of kind k (a new identity), *)
(* or s is removed (k = Removed)                                                *)
Reload(s, k) ==
  /\ Quiet
  /\ UNCHANGED otherVars
  /\ appReady
  /\ reloads < MaxReloads
  /\ reloads' = reloads + 1
  /\ LET c == IF k = Removed THEN NoCfg ELSE Cfg(reloads + 2, k[1], k[2]) IN
        /\ c # registry[s]
        /\ registry' = [registry EXCEPT ![s] = c]
  /\ lastApp' = [lastApp EXCEPT ![s] = 0]
  /\ UNCHANGED << instance, created, appReady, initFailed, conns, appConnections,
                  userConnections, userLastActivity, now, tasks >>

(* The loaded configuration set is replaced as a whole by `new`, in one step for its *)
(* readers                                                                           *)
ReloadAll_Partial(new) ==
  /\ Quiet
  /\ UNCHANGED otherVars
  /\ appReady
  /\ reloads < MaxReloads
  /\ reloads' = reloads + 1
  /\ registry' = [registry EXCEPT !["s1"] = new["s1"]]
  /\ lastApp' = EmptyCache
  /\ UNCHANGED << instance, created, appReady, initFailed, conns, appConnections,
                  userConnections, userLastActivity, now, tasks >>

ReloadAll(new) ==
  /\ Quiet
  /\ UNCHANGED otherVars
  /\ appReady
  /\ reloads < MaxReloads
  /\ reloads' = reloads + 1
  /\ registry' = new
  /\ lastApp' = EmptyCache
  /\ UNCHANGED << instance, created, appReady, initFailed, conns, appConnections,
                  userConnections, userLastActivity, now, tasks >>

(* The transport of a live connection drops *)
Drop(c) ==
  /\ Quiet
  /\ UNCHANGED otherVars
  /\ conns[c].up
  /\ conns' = Disconnect(conns, c)
  /\ lastApp' = [s \in Servers |-> IF lastApp[s] = c THEN 0 ELSE lastApp[s]]
  /\ UNCHANGED << instance, created, appReady, initFailed, registry, reloads, appConnections,
                  userConnections, userLastActivity, now, tasks >>

Tick ==
  /\ Quiet
  /\ UNCHANGED otherVars
  /\ now < MaxTime
  /\ now' = now + 1
  /\ UNCHANGED << instance, created, appReady, initFailed, registry, reloads, conns,
                  appConnections, userConnections, userLastActivity, tasks, lastApp >>

----------------------------------------------------------------------------
(* ConnectionsRepository (app scope) *)

(* The cached connection c no longer serves s: dropped, or its config is not the current app-level one *)
AppStale(c, s) == ~conns[c].up \/ ~AppLevel(s) \/ conns[c].ver # registry[s].ver

(* get(serverName): the possible outcomes, each with the repository cache and the   *)
(* connections after it.  A valid cached connection is returned; a stale one is     *)
(* disconnected and evicted and the lookup is absent; with no entry, an app-level   *)
(* server is connected (first use) and cached, or the connect fails and is absent.  *)
AppAbsent == [conn |-> 0, ev |-> 0, app |-> appConnections, cs |-> conns]

AppCreate(s) ==
  IF AppLevel(s) /\ NextId <= MaxConns
  THEN {[conn |-> NextId, ev |-> 0, app |-> [appConnections EXCEPT ![s] = NextId],
         cs |-> [conns EXCEPT ![NextId] = NewConn(s, "app")]]}
  ELSE {}

AppGet_KeepStale(s) ==
  LET c == appConnections[s] IN
  IF c # 0 THEN {[conn |-> c, ev |-> 0, app |-> appConnections, cs |-> conns]}
  ELSE {AppAbsent} \cup AppCreate(s)

AppGet_NoReuse(s) ==
  LET c == appConnections[s] IN
  IF c # 0
  THEN IF AppStale(c, s)
       THEN {[conn |-> 0, ev |-> c, app |-> [appConnections EXCEPT ![s] = 0],
              cs |-> Disconnect(conns, c)]}
       ELSE IF NextId <= MaxConns
            THEN {[conn |-> NextId, ev |-> 0, app |-> [appConnections EXCEPT ![s] = NextId],
                   cs |-> [Disconnect(conns, c) EXCEPT ![NextId] = NewConn(s, "app")]]}
            ELSE {[conn |-> c, ev |-> 0, app |-> appConnections, cs |-> conns]}
  ELSE {AppAbsent} \cup AppCreate(s)

AppGet(s) ==
  LET c == appConnections[s] IN
  IF c # 0
  THEN IF AppStale(c, s)
       THEN {[conn |-> 0, ev |-> c, app |-> [appConnections EXCEPT ![s] = 0],
              cs |-> Disconnect(conns, c)]}
       ELSE {[conn |-> c, ev |-> 0, app |-> appConnections, cs |-> conns]}
  ELSE {AppAbsent} \cup AppCreate(s)

----------------------------------------------------------------------------
(* UserConnectionManager (user scope) *)

updateUserLastActivity(act, u) == [act EXCEPT ![u] = now]

IsIdle_AtThreshold(act, u) == act[u] # NoTime /\ now - act[u] >= IdleTimeout
IsIdle(act, u) == act[u] # NoTime /\ now - act[u] > IdleTimeout

UserSet(u) == {userConnections[u][s] : s \in Servers} \ {0}

(* checkIdleConnections, run with the activity map act: every idle user's connections *)
(* are disconnected and the user's set is removed                                     *)
checkIdleConnections(act) ==
  LET idle == {u \in UserIds : IsIdle(act, u)} IN
  [ cs |-> DisconnectAll(conns, UNION {UserSet(u) : u \in idle}),
    uc |-> [u \in UserIds |-> IF u \in idle THEN EmptyCache ELSE userConnections[u]],
    act |-> [u \in UserIds |-> IF u \in idle THEN NoTime ELSE act[u]],
    swept |-> {u \in idle : UserSet(u) # {}} ]

(* The in-flight creation guard: a connect for (u, s) is in progress *)
InFlight_Never(u, s) == FALSE
InFlight(u, s) ==
  \E t \in Tasks : tasks[t].pc = "userConnect" /\ tasks[t].ua.u = u /\ tasks[t].ua.s = s

Waiters(u, s) == {t \in Tasks : tasks[t].pc = "userWait" /\ tasks[t].ua.u = u /\ tasks[t].ua.s = s}

----------------------------------------------------------------------------
(* MCPManager.getConnection *)

(* The branch taken once appConnections.get has resolved to `existing`:     *)
(* return it, delegate to getUserConnection, or throw InvalidRequest        *)
Route_UserFirst(existing, u) ==
  IF HasId(u) THEN "user" ELSE IF existing # 0 THEN "app" ELSE "throw"
Route_SkipApp(existing, u) ==
  IF HasId(u) THEN "user" ELSE "throw"
Route_NoDelegate(existing, u) ==
  IF existing # 0 THEN "app" ELSE "throw"
Route_AnyUser(existing, u) ==
  IF existing # 0 THEN "app" ELSE IF u # NoUser THEN "user" ELSE "throw"
Route(existing, u) ==
  IF existing # 0 THEN "app" ELSE IF HasId(u) THEN "user" ELSE "throw"

(* `this.getUserConnection(args as ...)`: the arguments are passed on as they are *)
Delegate_NoForceNew(r) == [s |-> r.s, u |-> r.u, fn |-> FALSE]
Delegate_OneUser(r) == [s |-> r.s, u |-> "u1", fn |-> r.fn]
Delegate(r) == [s |-> r.s, u |-> r.u, fn |-> r.fn]

(* What the caller of getConnection does with the connection it resolves to *)
OnConnection(r, c) ==
  CASE r.op = "getConnection" -> [r EXCEPT !.pc = "done", !.conn = c, !.res = ConnRes(c)]
    [] r.op = "callTool" -> [r EXCEPT !.pc = "isConnected", !.conn = c]
    [] r.op = "getPrompt" -> [r EXCEPT !.pc = "promptHeaders", !.conn = c]
    [] OTHER -> [r EXCEPT !.pc = "inspect", !.conn = c]

(* What the caller does with a failure: getConnection and callTool (catch, log, *)
(* rethrow) fail with the same error; getPrompt catches it and returns null     *)
OnFailure_Null(r, e) == [r EXCEPT !.pc = "done", !.raised = e, !.res = NullRes]
OnFailure_Rethrow(r, e) == [r EXCEPT !.pc = "done", !.raised = e, !.res = e]
OnFailure(r, e) ==
  IF r.op = "getPrompt" THEN [r EXCEPT !.pc = "done", !.raised = e, !.res = NullRes]
  ELSE [r EXCEPT !.pc = "done", !.raised = e, !.res = e]

(* getUserConnection resolves or rejects for the caller r *)
OnUserResult(r, ures) ==
  IF ures.k = "conn" THEN OnConnection([r EXCEPT !.ures = ures], ures.c)
  ELSE OnFailure([r EXCEPT !.ures = ures], ures)

startGetConnection(t, s, u, fn) ==
  /\ Quiet
  /\ UNCHANGED otherVars
  /\ Free(t)
  /\ instance # 0
  /\ tasks' = [tasks EXCEPT ![t] = NewCall("getConnection", s, u, fn, NoBody, "appGet")]
  /\ UNCHANGED << instance, created, appReady, initFailed, registry, reloads, conns,
                  appConnections, userConnections, userLastActivity, now, lastApp >>

(* `await this.appConnections!.get(serverName)` and the branch on its result *)
getConnection(t) ==
  /\ Quiet
  /\ UNCHANGED otherVars
  /\ tasks[t].pc = "appGet"
  /\ LET r == tasks[t] IN
     IF ~appReady
     THEN /\ tasks' = [tasks EXCEPT ![t] = OnFailure(r, ErrRes("TypeError"))]
          /\ UNCHANGED << conns, appConnections, lastApp >>
     ELSE \E o \in AppGet(r.s) :
          /\ appConnections' = o.app
          /\ conns' = o.cs
          /\ LET route == Route(o.conn, r.u)
                 r1 == [r EXCEPT !.app = o.conn, !.evicted = o.ev, !.prev = lastApp[r.s]]
             IN  /\ tasks' = [tasks EXCEPT ![t] =
                       CASE route = "app" -> OnConnection(r1, o.conn)
                         [] route = "user" ->
                              [r1 EXCEPT !.pc = "userGet", !.ucalls = @ + 1, !.ua = Delegate(r)]
                         [] OTHER -> OnFailure(r1, ErrAbout("InvalidRequest", r.s))]
                 /\ lastApp' = IF r.op = "getConnection" /\ r.u = NoUser
                                THEN [lastApp EXCEPT ![r.s] = IF route = "app" THEN o.conn ELSE 0]
                                ELSE lastApp
  /\ UNCHANGED << instance, created, appReady, initFailed, registry, reloads,
                  userConnections, userLastActivity, now >>

(* getUserConnection up to its first await: a creation in flight for the same key *)
(* is awaited; a cached live connection is returned unless forceNew; otherwise the  *)
(* user's config is resolved and a creation is started                              *)
getUserConnection(t) ==
  /\ Quiet
  /\ UNCHANGED otherVars
  /\ tasks[t].pc = "userGet"
  /\ LET r == tasks[t]
         a == r.ua
         c == userConnections[a.u][a.s]
     IN  IF InFlight(a.u, a.s)
         THEN /\ tasks' = [tasks EXCEPT ![t] = [r EXCEPT !.pc = "userWait"]]
              /\ UNCHANGED userConnections
         ELSE IF ~a.fn /\ c # 0 /\ conns[c].up
         THEN /\ tasks' = [tasks EXCEPT ![t] = OnUserResult(r, ConnRes(c))]
              /\ UNCHANGED userConnections
         ELSE /\ userConnections' =
                   IF c # 0 /\ ~conns[c].up
                   THEN [userConnections EXCEPT ![a.u][a.s] = 0]
                   ELSE userConnections
              /\ tasks' = [tasks EXCEPT ![t] =
                   IF registry[a.s] = NoCfg THEN OnUserResult(r, ErrAbout("ConfigNotFound", a.s))
                   ELSE [r EXCEPT !.pc = "userConnect"]]
  /\ UNCHANGED << instance, created, appReady, initFailed, registry, reloads, conns,
                  appConnections, userLastActivity, now, lastApp >>

(* The creation completes: the connection is stored under (user, server), replacing *)
(* and disconnecting any connection it supersedes; callers awaiting it get it too   *)
userConnected(t) ==
  /\ Quiet
  /\ UNCHANGED otherVars
  /\ tasks[t].pc = "userConnect"
  /\ NextId <= MaxConns
  /\ LET a == tasks[t].ua
         old == userConnections[a.u][a.s]
         new == NextId
     IN  /\ conns' = [DisconnectAll(conns, {old} \ {0}) EXCEPT ![new] = NewConn(a.s, a.u)]
         /\ userConnections' = [userConnections EXCEPT ![a.u][a.s] = new]
         /\ userLastActivity' = IF userLastActivity[a.u] = NoTime
                                 THEN updateUserLastActivity(userLastActivity, a.u)
                                 ELSE userLastActivity
         /\ tasks' = [w \in Tasks |->
               IF w = t \/ w \in Waiters(a.u, a.s) THEN OnUserResult(tasks[w], ConnRes(new))
               ELSE tasks[w]]
  /\ UNCHANGED << instance, created, appReady, initFailed, registry, reloads,
                  appConnections, now, lastApp >>

(* The handshake or the OAuth flow fails: ConnectionError, for the awaiting callers too *)
userConnectFails(t) ==
  /\ Quiet
  /\ UNCHANGED otherVars
  /\ tasks[t].pc = "userConnect"
  /\ LET a == tasks[t].ua IN
       tasks' = [w \in Tasks |->
               IF w = t \/ w \in Waiters(a.u, a.s)
               THEN OnUserResult(tasks[w], ErrAbout("ConnectionError", a.s))
               ELSE tasks[w]]
  /\ UNCHANGED << instance, created, appReady, initFailed, registry, reloads, conns,
                  appConnections, userConnections, userLastActivity, now, lastApp >>

----------------------------------------------------------------------------
(* MCPManager.getServerToolFunctions *)

startGetServerToolFunctions(t, u, s) ==
  /\ Quiet
  /\ UNCHANGED otherVars
  /\ Free(t)
  /\ instance # 0
  /\ tasks' = [tasks EXCEPT ![t] = NewCall("getServerToolFunctions", s, u, FALSE, NoBody, "toolsGet")]
  /\ UNCHANGED << instance, created, appReady, initFailed, registry, reloads, conns,
                  appConnections, userConnections, userLastActivity, now, lastApp >>

(* The connection to introspect: `if (existingAppConnection) return ...`, then      *)
(* `userConnections.has(serverName)` / `userConnections.get(serverName)`; 0 = none  *)
ToolSource_UserFirst(existingAppConnection, userConnection) ==
  IF userConnection # 0 THEN userConnection ELSE existingAppConnection
ToolSource_OnlyApp(existingAppConnection, userConnection) == existingAppConnection
ToolSource(existingAppConnection, userConnection) ==
  IF existingAppConnection # 0 THEN existingAppConnection ELSE userConnection

(* `await this.appConnections?.get(serverName)`, then the user's own connections *)
getServerToolFunctions(t) ==
  /\ Quiet
  /\ UNCHANGED otherVars
  /\ tasks[t].pc = "toolsGet"
  /\ LET r == tasks[t] IN
     \E o \in (IF appReady THEN AppGet(r.s) ELSE {AppAbsent}) :
       /\ appConnections' = o.app
       /\ conns' = o.cs
       /\ LET r1 == [r EXCEPT !.app = o.conn, !.evicted = o.ev]
              src == ToolSource(o.conn, userConnections[r.u][r.s])
          IN  tasks' = [tasks EXCEPT ![t] =
                IF src = 0 THEN [r1 EXCEPT !.pc = "done", !.res = NullRes]
                ELSE OnConnection(r1, src)]
  /\ UNCHANGED << instance, created, appReady, initFailed, registry, reloads,
                  userConnections, userLastActivity, now, lastApp >>

(* MCPServerInspector.getToolFunctions resolves with the functions of the connection *)
inspected(t) ==
  /\ Quiet
  /\ UNCHANGED otherVars
  /\ tasks[t].pc = "inspect"
  /\ conns[tasks[t].conn].up
  /\ tasks' = [tasks EXCEPT ![t] = [@ EXCEPT !.pc = "done", !.res = ToolsRes(tasks[t].conn)]]
  /\ UNCHANGED << instance, created, appReady, initFailed, registry, reloads, conns,
                  appConnections, userConnections, userLastActivity, now, lastApp >>

(* ... or rejects: the promise was returned without await, so the catch does not see it *)
inspectFails(t) ==
  /\ Quiet
  /\ UNCHANGED otherVars
  /\ tasks[t].pc = "inspect"
  /\ tasks' = [tasks EXCEPT ![t] = [@ EXCEPT !.pc = "done", !.res = ErrRes("InspectError")]]
  /\ UNCHANGED << instance, created, appReady, initFailed, registry, reloads, conns,
                  appConnections, userConnections, userLastActivity, now, lastApp >>

----------------------------------------------------------------------------
(* MCPManager.getAppToolFunctions *)

(* An object is the sequence of its <<key, value>> entries in property order.        *)
(* getAllServerConfigs(): the configs of the configured servers, by server name       *)
ServerOrder == << "s1", "s2" >>
AllServerConfigs ==
  SelectSeq([i \in 1..Len(ServerOrder) |-> << ServerOrder[i], registry[ServerOrder[i]] >>],
            LAMBDA e : e[2] # NoCfg)

ObjectValues(obj) == [i \in 1..Len(obj) |-> obj[i][2]]

(* `for (const config of Object.values(configs)) if (config.toolFunctions != null) *)
(*    Object.assign(toolFunctions, config.toolFunctions)`                           *)
RECURSIVE AssignToolFunctions(_, _)
AssignToolFunctions(toolFunctions, values) ==
  IF values = << >> THEN toolFunctions
  ELSE AssignToolFunctions(
         IF Head(values).toolFunctions.has
         THEN ObjectAssign(toolFunctions, Head(values).toolFunctions.map)
         ELSE toolFunctions,
         Tail(values))

startGetAppToolFunctions(t) ==
  /\ Quiet
  /\ UNCHANGED otherVars
  /\ Free(t)
  /\ instance # 0
  /\ tasks' = [tasks EXCEPT ![t] =
        [NewCall("getAppToolFunctions", "s1", NoUser, FALSE, NoBody, "getAllServerConfigs")
           EXCEPT !.gen = reloads]]
  /\ UNCHANGED << instance, created, appReady, initFailed, registry, reloads, conns,
                  appConnections, userConnections, userLastActivity, now, lastApp >>

(* getAllServerConfigs resolves with `configs`; the declared functions are merged *)
getAppToolFunctions(t, configs) ==
  /\ Quiet
  /\ UNCHANGED otherVars
  /\ tasks[t].op = "getAppToolFunctions"
  /\ tasks[t].pc = "getAllServerConfigs"
  /\ tasks' = [tasks EXCEPT ![t] =
        [@ EXCEPT !.pc = "done", !.configs = configs,
                  !.value = AssignToolFunctions({}, ObjectValues(configs)),
                  !.res = OkRes]]
  /\ UNCHANGED << instance, created, appReady, initFailed, registry, reloads, conns,
                  appConnections, userConnections, userLastActivity, now, lastApp >>

----------------------------------------------------------------------------
(* MCPManager.getInstructions and formatInstructionsForContext *)

(* Property order of an object: the keys that are array indices come first, in      *)
(* ascending numeric order, then the other string keys in the order they were added *)
IntegerLike == {"1", "2"}
NumberOf(key) == IF key = "1" THEN 1 ELSE 2
HasKey(obj, key) == \E i \in 1..Len(obj) : obj[i][1] = key
ValueOf(obj, key) == obj[CHOOSE i \in 1..Len(obj) : obj[i][1] = key][2]
ObjectKeys(obj) == [i \in 1..Len(obj) |-> obj[i][1]]
ObjectEntries(obj) == obj

(* obj[key] = value *)
ObjectSet_Append(obj, key, value) == Append(obj, << key, value >>)
ObjectSet(obj, key, value) ==
  IF HasKey(obj, key)
  THEN [i \in 1..Len(obj) |-> IF obj[i][1] = key THEN << key, value >> ELSE obj[i]]
  ELSE IF key \in IntegerLike
  THEN LET Before(e) == e[1] \in IntegerLike /\ NumberOf(e[1]) < NumberOf(key) IN
       SelectSeq(obj, Before) \o << << key, value >> >> \o SelectSeq(obj, LAMBDA e : ~Before(e))
  ELSE Append(obj, << key, value >>)

(* lodash pick(object, paths): an object with the listed own keys of `object`, set in *)
(* the order of the list                                                              *)
RECURSIVE PickInto(_, _, _)
PickInto(result, obj, paths) ==
  IF paths = << >> THEN result
  ELSE PickInto(IF HasKey(obj, Head(paths))
                THEN ObjectSet(result, Head(paths), ValueOf(obj, Head(paths)))
                ELSE result,
                obj, Tail(paths))
Pick(obj, paths) == PickInto(<< >>, obj, paths)

(* The serverNames argument: omitted, or a list of names *)
Omitted == [given |-> FALSE, list |-> << >>]
Names(list) == [given |-> TRUE, list |-> list]

(* `for (const [serverName, config] of Object.entries(configs))                    *)
(*    if (config.serverInstructions != null) instructions[serverName] = ...`        *)
RECURSIVE CollectInstructions(_, _)
CollectInstructions(instructions, entries) ==
  IF entries = << >> THEN instructions
  ELSE CollectInstructions(
         IF Head(entries)[2].serverInstructions.has
         THEN ObjectSet(instructions, Head(entries)[1], Head(entries)[2].serverInstructions.text)
         ELSE instructions,
         Tail(entries))

(* `if (!serverNames) return instructions; return pick(instructions, serverNames);` *)
getInstructions(configs, serverNames) ==
  LET instructions == CollectInstructions(<< >>, ObjectEntries(configs)) IN
  IF ~serverNames.given THEN instructions ELSE Pick(instructions, serverNames.list)

(* `## ${serverName} MCP Server Instructions\n\n${instructions}` *)
SectionOf(entry) == << "## ", entry[1], " MCP Server Instructions", "\n\n" >> \o entry[2]

(* `Object.keys(instructionsToInclude).length === 0` *)
NothingToInclude_Never(instructionsToInclude) == FALSE
NothingToInclude(instructionsToInclude) == Len(ObjectKeys(instructionsToInclude)) = 0

ClosingDirective ==
  "Please follow these instructions when using tools from the respective MCP servers."

FormatInstructions(instructionsToInclude) ==
  IF NothingToInclude(instructionsToInclude) THEN << >>
  ELSE LET entries == ObjectEntries(instructionsToInclude)
           formattedInstructions ==
             ArrayJoin([i \in 1..Len(entries) |-> SectionOf(entries[i])], "\n\n")
       IN  << "# MCP Server Instructions", "\n\n",
              "The following MCP servers are available with their specific instructions:",
              "\n\n" >>
             \o formattedInstructions
             \o << "\n\n", ClosingDirective >>

startFormatInstructionsForContext(t, serverNames) ==
  /\ Quiet
  /\ UNCHANGED otherVars
  /\ Free(t)
  /\ instance # 0
  /\ tasks' = [tasks EXCEPT ![t] =
        [NewCall("formatInstructionsForContext", "s1", NoUser, FALSE, NoBody, "getAllServerConfigs")
           EXCEPT !.names = serverNames, !.gen = reloads]]
  /\ UNCHANGED << instance, created, appReady, initFailed, registry, reloads, conns,
                  appConnections, userConnections, userLastActivity, now, lastApp >>

(* getAllServerConfigs resolves with `configs`; the instructions are selected and rendered *)
formatInstructionsForContext(t, configs) ==
  /\ Quiet
  /\ UNCHANGED otherVars
  /\ tasks[t].op = "formatInstructionsForContext"
  /\ tasks[t].pc = "getAllServerConfigs"
  /\ tasks' = [tasks EXCEPT ![t] =
        [@ EXCEPT !.pc = "done", !.configs = configs,
                  !.res = ContentRes(FormatInstructions(getInstructions(configs, tasks[t].names)))]]
  /\ UNCHANGED << instance, created, appReady, initFailed, registry, reloads, conns,
                  appConnections, userConnections, userLastActivity, now, lastApp >>

----------------------------------------------------------------------------
(* MCPManager.callTool *)

CookieHeader(body) == {<<"Cookie", JoinCookies(body.jar)>>}

(* The headers callTool builds: the config headers, overlaid by the forwarded cookies *)
CallToolHeaders_ConfigOnly(cfg, body) == ObjectAssign({}, cfg.hdr)
CallToolHeaders(cfg, body) ==
  LET headers == ObjectAssign({}, cfg.hdr) IN
  IF body.has THEN ObjectAssign(headers, CookieHeader(body)) ELSE headers

(* The per-call options argument: omitted, or an object *)
NoOptions == [given |-> FALSE, obj |-> << >>]
Options(obj) == [given |-> TRUE, obj |-> obj]

(* `{...target, ...source}`: the own properties of source are set on target in their order *)
RECURSIVE ObjectSpread(_, _)
ObjectSpread(target, source) ==
  IF source = << >> THEN target
  ELSE ObjectSpread(ObjectSet(target, source[1][1], source[1][2]), Tail(source))

(* connection.timeout *)
ConnectionTimeout(c) == << "timeout of connection", ToString(c) >>

(* `{ timeout: connection.timeout, resetTimeoutOnProgress: true, ...options }` *)
RequestOptions_DefaultsLast(c, options) ==
  ObjectSpread(IF options.given THEN options.obj ELSE << >>,
               << << "timeout", ConnectionTimeout(c) >>, << "resetTimeoutOnProgress", << "true" >> >> >>)
RequestOptions(c, options) ==
  ObjectSpread(<< << "timeout", ConnectionTimeout(c) >>, << "resetTimeoutOnProgress", << "true" >> >> >>,
               IF options.given THEN options.obj ELSE << >>)

(* `if (userId && user) this.updateUserLastActivity(userId)` *)
PreCallActivity_None(act, u) == act
PreCallActivity(act, u) == IF HasId(u) THEN updateUserLastActivity(act, u) ELSE act

(* callTool up to its first await: the user's activity is recorded, getConnection is called *)
startCallTool(t, s, u, body, toolName, options) ==
  /\ Quiet
  /\ UNCHANGED otherVars
  /\ Free(t)
  /\ instance # 0
  /\ userLastActivity' = PreCallActivity(userLastActivity, u)
  /\ tasks' = [tasks EXCEPT ![t] =
        [NewCall("callTool", s, u, FALSE, body, "appGet") EXCEPT !.tool = toolName,
                                                                  !.options = options]]
  /\ UNCHANGED << instance, created, appReady, initFailed, registry, reloads, conns,
                  appConnections, userConnections, now, lastApp >>

(* `await connection.isConnected()` *)
IsActive_Always(c) == TRUE
IsActive(c) == conns[c].up

(* The error of an inactive connection: `${logPrefix} Connection is not active. *)
(* Cannot execute tool ${toolName}.`, the prefix carrying the server name       *)
ConnectionInactive(r) == ErrAboutTool("InternalError", r.s, r.tool)

isConnected(t) ==
  /\ Quiet
  /\ UNCHANGED otherVars
  /\ tasks[t].pc = "isConnected"
  /\ tasks' = [tasks EXCEPT ![t] =
        IF IsActive(@.conn) THEN [@ EXCEPT !.pc = "getServerConfig"]
        ELSE OnFailure(@, ConnectionInactive(@))]
  /\ UNCHANGED << instance, created, appReady, initFailed, registry, reloads, conns,
                  appConnections, userConnections, userLastActivity, now, lastApp >>

(* getServerConfig resolves; the headers are built and applied when there are any; *)
(* the tools/call request is issued                                                *)
callToolRequest(t) ==
  /\ Quiet
  /\ UNCHANGED otherVars
  /\ tasks[t].pc = "getServerConfig"
  /\ LET r == tasks[t] IN
     IF registry[r.s] = NoCfg
     THEN /\ tasks' = [tasks EXCEPT ![t] = OnFailure(r, ErrAbout("ConfigNotFound", r.s))]
          /\ UNCHANGED conns
     ELSE LET headers == CallToolHeaders(registry[r.s], r.body)
              cs == IF headers # {} THEN SetRequestHeaders(conns, r.conn, headers) ELSE conns
          IN  /\ conns' = cs
              /\ tasks' = [tasks EXCEPT ![t] =
                    [r EXCEPT !.pc = "request", !.sent = cs[r.conn].hdr,
                              !.request = RequestOptions(r.conn, r.options)]]
  /\ UNCHANGED << instance, created, appReady, initFailed, registry, reloads,
                  appConnections, userConnections, userLastActivity, now, lastApp >>

(* The activity map the idle sweep of a successful call sees *)
PostCallActivity_None(act, u) == act
PostCallActivity(act, u) == IF HasId(u) THEN updateUserLastActivity(act, u) ELSE act

(* `if (userId) this.updateUserLastActivity(userId); this.checkIdleConnections();` *)
PostCall_SweepFirst(act, u) ==
  LET sweep == checkIdleConnections(act) IN
  [sweep EXCEPT !.act = PostCallActivity(sweep.act, u)]
PostCall(act, u) == checkIdleConnections(PostCallActivity(act, u))

(* The request resolves: activity again, the idle sweep, then formatToolContent, *)
(* whose outcome (the formatted result, or what it throws) is `formatted`         *)
callToolCompleted(t, formatted) ==
  /\ Quiet
  /\ UNCHANGED otherVars
  /\ tasks[t].pc = "request"
  /\ conns[tasks[t].conn].up
  /\ LET r == tasks[t]
         sweep == PostCall(userLastActivity, r.u)
     IN  /\ conns' = sweep.cs
         /\ userConnections' = sweep.uc
         /\ userLastActivity' = sweep.act
         /\ tasks' = [tasks EXCEPT ![t] =
               LET r1 == [r EXCEPT !.sweeps = @ + 1, !.swept = sweep.swept] IN
               IF formatted.k = "error" THEN OnFailure(r1, formatted)
               ELSE [r1 EXCEPT !.pc = "done", !.res = formatted]]
  /\ UNCHANGED << instance, created, appReady, initFailed, registry, reloads,
                  appConnections, now, lastApp >>

callToolDone(t) == callToolCompleted(t, OkRes)

(* formatToolContent throws: the catch rethrows it *)
callToolFormatFails(t) == callToolCompleted(t, ErrRes("FormatError"))

callToolFails_Disconnects(t, e) ==
  /\ Quiet
  /\ UNCHANGED otherVars
  /\ tasks[t].pc = "request"
  /\ tasks' = [tasks EXCEPT ![t] = OnFailure(@, ErrRes(e))]
  /\ conns' = Disconnect(conns, tasks[t].conn)
  /\ UNCHANGED << instance, created, appReady, initFailed, registry, reloads,
                  appConnections, userConnections, userLastActivity, now, lastApp >>

(* The request fails (a protocol or transport error, a timeout) or is cancelled *)
callToolFails(t, e) ==
  /\ Quiet
  /\ UNCHANGED otherVars
  /\ tasks[t].pc = "request"
  /\ tasks' = [tasks EXCEPT ![t] = OnFailure(@, ErrRes(e))]
  /\ UNCHANGED << instance, created, appReady, initFailed, registry, reloads, conns,
                  appConnections, userConnections, userLastActivity, now, lastApp >>

----------------------------------------------------------------------------
(* MCPManager.getPrompt *)

startGetPrompt(t, s, u, body) ==
  /\ Quiet
  /\ UNCHANGED otherVars
  /\ Free(t)
  /\ instance # 0
  /\ tasks' = [tasks EXCEPT ![t] = NewCall("getPrompt", s, u, FALSE, body, "appGet")]
  /\ UNCHANGED << instance, created, appReady, initFailed, registry, reloads, conns,
                  appConnections, userConnections, userLastActivity, now, lastApp >>

(* `connection.setRequestHeaders({ Cookie: cookieStr })` *)
PromptCookieHeader_None(body) == NoHeaders
PromptCookieHeader(body) == {<<"Cookie", JoinPromptCookies(body.jar)>>}

(* The forwarded cookies are set on the connection; prompts/get is issued *)
getPromptRequest(t) ==
  /\ Quiet
  /\ UNCHANGED otherVars
  /\ tasks[t].pc = "promptHeaders"
  /\ LET r == tasks[t]
         cs == IF r.body.has THEN SetRequestHeaders(conns, r.conn, PromptCookieHeader(r.body)) ELSE conns
     IN  /\ conns' = cs
         /\ tasks' = [tasks EXCEPT ![t] = [r EXCEPT !.pc = "promptRequest", !.sent = cs[r.conn].hdr]]
  /\ UNCHANGED << instance, created, appReady, initFailed, registry, reloads,
                  appConnections, userConnections, userLastActivity, now, lastApp >>

(* The messages of a prompts/get result: a content type and, as the type has it, a text *)
TextMessage(text) == [type |-> "text", text |-> text]
ResourceMessage(text) == [type |-> "resource", text |-> text]
NoMessages == << >>
OneMessage == << TextMessage(<<"A">>) >>

(* `if (msg.content.type === 'text') return msg.content.text; return '';` *)
PromptText_AnyType(msg) == msg.text
PromptText(msg) == IF msg.type = "text" THEN msg.text ELSE << >>

(* `.filter(Boolean)`: the empty string is the one falsy string *)
FilterBoolean_KeepAll(items) == items
FilterBoolean(items) == SelectSeq(items, LAMBDA x : x # << >>)

(* result.messages.map(...).filter(Boolean).join('\n\n') *)
PromptContent(messages) ==
  ArrayJoin(FilterBoolean([i \in 1..Len(messages) |-> PromptText(messages[i])]), "\n\n")

(* What client.getPrompt resolves with: nothing, an object without a messages field, *)
(* or an object with its messages                                                    *)
NoResult == [present |-> FALSE, hasMessages |-> FALSE, messages |-> << >>]
ResultWithoutMessages == [present |-> TRUE, hasMessages |-> FALSE, messages |-> << >>]
PromptResult(messages) == [present |-> TRUE, hasMessages |-> TRUE, messages |-> messages]

(* `!result || !result.messages || result.messages.length === 0` *)
ReturnedNoMessages_OnlyMissing(result) == ~result.present \/ ~result.hasMessages
ReturnedNoMessages(result) ==
  ~result.present \/ ~result.hasMessages \/ Len(result.messages) = 0

(* prompts/get resolves: the text of the messages, or null when there are none *)
getPromptDone(t, result) ==
  /\ Quiet
  /\ UNCHANGED otherVars
  /\ tasks[t].pc = "promptRequest"
  /\ conns[tasks[t].conn].up
  /\ tasks' = [tasks EXCEPT ![t] =
        [@ EXCEPT !.pc = "done", !.result = result, !.msgs = result.messages,
                  !.res = IF ReturnedNoMessages(result) THEN NullRes
                          ELSE ContentRes(PromptContent(result.messages))]]
  /\ UNCHANGED << instance, created, appReady, initFailed, registry, reloads, conns,
                  appConnections, userConnections, userLastActivity, now, lastApp >>

getPromptFails(t) ==
  /\ Quiet
  /\ UNCHANGED otherVars
  /\ tasks[t].pc = "promptRequest"
  /\ tasks' = [tasks EXCEPT ![t] = OnFailure(@, ErrRes("RequestError"))]
  /\ UNCHANGED << instance, created, appReady, initFailed, registry, reloads, conns,
                  appConnections, userConnections, userLastActivity, now, lastApp >>

----------------------------------------------------------------------------
----------------------------------------------------------------------------
(* One caller at a time: every call of the facade runs to completion before the next *)
Caller == {"t1"}

(* The user of these calls: one with an id, one without, or none *)
CallerIds == {"u1"}
CallerArgs == CallerIds \cup {NoUser, AnonUser}

NextCalls ==
  \/ \E s \in Servers, k \in {AppKind, UserKind, Removed} : Reload(s, k)
  \/ \E c \in ConnIds : Drop(c)
  \/ \E t \in Caller, s \in Servers, u \in CallerArgs, fn \in BOOLEAN : startGetConnection(t, s, u, fn)
  \/ \E t \in Caller : getConnection(t)
  \/ \E t \in Caller : getUserConnection(t)
  \/ \E t \in Caller : userConnected(t)
  \/ \E t \in Caller : userConnectFails(t)
  \/ \E t \in Caller, u \in CallerIds, s \in Servers : startGetServerToolFunctions(t, u, s)
  \/ \E t \in Caller : getServerToolFunctions(t)
  \/ \E t \in Caller : inspected(t)
  \/ \E t \in Caller : inspectFails(t)

Next ==
  \/ \E t \in Caller : return(t)
  \/ NextCalls

Spec == Init /\ [][Next]_vars

(* The life cycle of the singleton, with concurrent callers *)
NextLifeCalls ==
  \/ \E t \in Tasks : createInstance(t)
  \/ \E t \in Tasks : initialize(t)
  \/ \E t \in Tasks : initializeFails(t)
  \/ \E t \in Tasks : getInstance(t)
  \/ \E s \in Servers, k \in {AppKind, Removed} : Reload(s, k)
  \/ \E c \in ConnIds : Drop(c)
  \/ \E t \in Tasks, s \in Servers : startGetConnection(t, s, NoUser, FALSE)
  \/ \E t \in Tasks : getConnection(t)

NextLife ==
  \/ \E t \in Tasks : return(t)
  \/ NextLifeCalls

SpecLife == InitLife /\ [][NextLife]_vars

(* Tool calls and prompt fetches with forwarded cookies, one at a time *)
CallRegistries ==
  { Registry(AppCfg, UserCfg), Registry(UserCfg, UserCfg), Registry(AppCfgH, UserCfg),
    Registry(AppCfgC, UserCfg) }

CallBodies == {NoBody, BodyWith(<< <<"sid", "abc">> >>)}
ToolNames == {"toolA", "toolB"}

InitCall ==
  /\ instance = 1
  /\ created = 1
  /\ appReady = TRUE
  /\ initFailed = FALSE
  /\ registry \in CallRegistries
  /\ InitRest

NextCallCalls ==
  \/ \E c \in ConnIds : Drop(c)
  \/ \E t \in Caller, s \in Servers, u \in UserIds \cup {NoUser}, b \in CallBodies :
        \E n \in ToolNames : startCallTool(t, s, u, b, n, NoOptions)
  \/ \E t \in Caller, s \in Servers, u \in UserIds \cup {NoUser}, b \in CallBodies :
        startGetPrompt(t, s, u, b)
  \/ \E t \in Caller : getConnection(t)
  \/ \E t \in Caller : getUserConnection(t)
  \/ \E t \in Caller : userConnected(t)
  \/ \E t \in Caller : userConnectFails(t)
  \/ \E t \in Caller : isConnected(t)
  \/ \E t \in Caller : callToolRequest(t)
  \/ \E t \in Caller : callToolDone(t)
  \/ \E t \in Caller : callToolFormatFails(t)
  \/ \E t \in Caller, e \in {"RequestError", "Cancelled"} : callToolFails(t, e)
  \/ \E t \in Caller : getPromptRequest(t)
  \/ \E t \in Caller, m \in {OneMessage, NoMessages} : getPromptDone(t, PromptResult(m))
  \/ \E t \in Caller : getPromptFails(t)

NextCall ==
  \/ \E t \in Caller : return(t)
  \/ NextCallCalls

SpecCall == InitCall /\ [][NextCall]_vars

(* Tool calls, one at a time, while the clock advances: idle eviction *)
IdleRegistries == { Registry(AppCfg, UserCfg), Registry(UserCfg, UserCfg) }

InitIdle ==
  /\ instance = 1
  /\ created = 1
  /\ appReady = TRUE
  /\ initFailed = FALSE
  /\ registry \in IdleRegistries
  /\ InitRest

NextIdleCalls ==
  \/ \E c \in ConnIds : Drop(c)
  \/ Tick
  \/ \E t \in Caller, s \in Servers, u \in UserIds \cup {NoUser} : startCallTool(t, s, u, NoBody, "toolA", NoOptions)
  \/ \E t \in Caller : getConnection(t)
  \/ \E t \in Caller : getUserConnection(t)
  \/ \E t \in Caller : userConnected(t)
  \/ \E t \in Caller : userConnectFails(t)
  \/ \E t \in Caller : isConnected(t)
  \/ \E t \in Caller : callToolRequest(t)
  \/ \E t \in Caller : callToolDone(t)
  \/ \E t \in Caller : callToolFormatFails(t)
  \/ \E t \in Caller, e \in {"RequestError", "Cancelled"} : callToolFails(t, e)

NextIdle ==
  \/ \E t \in Caller : return(t)
  \/ NextIdleCalls

SpecIdle == InitIdle /\ [][NextIdle]_vars

(* Concurrent callers: the calls of two tasks interleave at their awaits *)
ConcRegistries == { Registry(UserCfg, UserCfg), Registry(AppCfg, UserCfg) }
ConcServers == {"s2"}

InitConc ==
  /\ instance = 1
  /\ created = 1
  /\ appReady = TRUE
  /\ initFailed = FALSE
  /\ registry \in ConcRegistries
  /\ InitRest

NextConcCalls ==
  \/ \E c \in ConnIds : Drop(c)
  \/ \E t \in Tasks, s \in ConcServers, u \in UserIds, fn \in BOOLEAN : startGetConnection(t, s, u, fn)
  \/ \E t \in Tasks, s \in ConcServers, u \in UserIds : startCallTool(t, s, u, NoBody, "toolA", NoOptions)
  \/ \E t \in Tasks, s \in ConcServers, u \in UserIds : startGetPrompt(t, s, u, NoBody)
  \/ \E t \in Tasks : getConnection(t)
  \/ \E t \in Tasks : getUserConnection(t)
  \/ \E t \in Tasks : userConnected(t)
  \/ \E t \in Tasks : userConnectFails(t)
  \/ \E t \in Tasks : isConnected(t)
  \/ \E t \in Tasks : callToolRequest(t)
  \/ \E t \in Tasks : callToolDone(t)
  \/ \E t \in Tasks : callToolFormatFails(t)
  \/ \E t \in Tasks : callToolFails(t, "RequestError")
  \/ \E t \in Tasks : getPromptRequest(t)
  \/ \E t \in Tasks : getPromptDone(t, PromptResult(OneMessage))
  \/ \E t \in Tasks : getPromptFails(t)

NextConc ==
  \/ \E t \in Tasks : return(t)
  \/ NextConcCalls

SpecConc == InitConc /\ [][NextConc]_vars

(* Concurrent tool calls and prompt fetches with different forwarded cookies on one *)
(* server: the calls share the server's connection                                 *)
HdrRegistries == { Registry(AppCfgH, NoCfg), Registry(UserCfg, NoCfg) }
HdrServers == {"s1"}
HdrUsers == {"u1"}
HdrTools == {"toolA"}

InitHdr ==
  /\ instance = 1
  /\ created = 1
  /\ appReady = TRUE
  /\ initFailed = FALSE
  /\ registry \in HdrRegistries
  /\ InitRest

NextHdrCalls ==
  \/ \E t \in Tasks, s \in HdrServers, u \in HdrUsers, b \in RequestBodies, n \in HdrTools :
        startCallTool(t, s, u, b, n, NoOptions)
  \/ \E t \in Tasks, s \in HdrServers, u \in HdrUsers, b \in RequestBodies :
        startGetPrompt(t, s, u, b)
  \/ \E t \in Tasks : getConnection(t)
  \/ \E t \in Tasks : getUserConnection(t)
  \/ \E t \in Tasks : userConnected(t)
  \/ \E t \in Tasks : userConnectFails(t)
  \/ \E t \in Tasks : isConnected(t)
  \/ \E t \in Tasks : callToolRequest(t)
  \/ \E t \in Tasks : callToolDone(t)
  \/ \E t \in Tasks : callToolFormatFails(t)
  \/ \E t \in Tasks : callToolFails(t, "RequestError")
  \/ \E t \in Tasks : getPromptRequest(t)
  \/ \E t \in Tasks : getPromptDone(t, PromptResult(OneMessage))
  \/ \E t \in Tasks : getPromptFails(t)

NextHdr ==
  \/ \E t \in Tasks : return(t)
  \/ NextHdrCalls

SpecHdr == InitHdr /\ [][NextHdr]_vars

(* The serialization of the forwarded cookies: one caller, one app-level server, *)
(* every cookie mapping of up to MaxJar entries                                 *)
CookieNames == {"sid", "tok", "ws"}
CookieValues == {"abc", "xyz"}
Jars ==
  { j \in UNION { [1..n -> CookieNames \X CookieValues] : n \in 0..MaxJar } :
      \A i, k \in DOMAIN j : i # k => j[i][1] # j[k][1] }
CookieBodies == { BodyWith(j) : j \in Jars } \cup {NoBody}
CookieRegistries == { Registry(AppCfg, NoCfg) }

InitCookie ==
  /\ instance = 1
  /\ created = 1
  /\ appReady = TRUE
  /\ initFailed = FALSE
  /\ registry \in CookieRegistries
  /\ InitRest

NextCookieCalls ==
  \/ \E t \in Caller, b \in CookieBodies : startCallTool(t, "s1", NoUser, b, "toolA", NoOptions)
  \/ \E t \in Caller, b \in CookieBodies : startGetPrompt(t, "s1", NoUser, b)
  \/ \E t \in Caller : getConnection(t)
  \/ \E t \in Caller : isConnected(t)
  \/ \E t \in Caller : callToolRequest(t)
  \/ \E t \in Caller : callToolDone(t)
  \/ \E t \in Caller : callToolFormatFails(t)
  \/ \E t \in Caller : callToolFails(t, "RequestError")
  \/ \E t \in Caller : getPromptRequest(t)
  \/ \E t \in Caller : getPromptDone(t, PromptResult(OneMessage))
  \/ \E t \in Caller : getPromptFails(t)

NextCookie ==
  \/ \E t \in Caller : return(t)
  \/ NextCookieCalls

SpecCookie == InitCookie /\ [][NextCookie]_vars

(* Prompt fetches, one at a time, with every prompts/get result of up to MaxMessages *)
(* messages: text, empty text, and non-text messages                                *)
MessageKinds ==
  { TextMessage(<<"A">>), TextMessage(<<"B">>), TextMessage(<< >>), ResourceMessage(<<"R">>) }
PromptResults ==
  {NoResult, ResultWithoutMessages}
    \cup { PromptResult(m) : m \in UNION { [1..n -> MessageKinds] : n \in 0..MaxMessages } }
PromptRegistries == { Registry(AppCfg, UserCfg) }
PromptBodies == {NoBody, BodyWith(<< <<"sid", "abc">> >>)}

InitPrompt ==
  /\ instance = 1
  /\ created = 1
  /\ appReady = TRUE
  /\ initFailed = FALSE
  /\ registry \in PromptRegistries
  /\ InitRest

NextPromptCalls ==
  \/ \E c \in ConnIds : Drop(c)
  \/ \E t \in Caller, s \in Servers, u \in CallerIds \cup {NoUser}, b \in PromptBodies :
        startGetPrompt(t, s, u, b)
  \/ \E t \in Caller : getConnection(t)
  \/ \E t \in Caller : getUserConnection(t)
  \/ \E t \in Caller : userConnected(t)
  \/ \E t \in Caller : userConnectFails(t)
  \/ \E t \in Caller : getPromptRequest(t)
  \/ \E t \in Caller, result \in PromptResults : getPromptDone(t, result)
  \/ \E t \in Caller : getPromptFails(t)

NextPrompt ==
  \/ \E t \in Caller : return(t)
  \/ NextPromptCalls

SpecPrompt == InitPrompt /\ [][NextPrompt]_vars

(* Tool introspection for two users, one call at a time, while servers are reloaded *)
(* and connections drop; connections are established by getConnection               *)
ToolsRegistries == { Registry(AppCfg, NoCfg), Registry(UserCfg, NoCfg) }
ToolsServers == {"s1"}

InitTools ==
  /\ instance = 1
  /\ created = 1
  /\ appReady = TRUE
  /\ initFailed = FALSE
  /\ registry \in ToolsRegistries
  /\ InitRest

NextToolsCalls ==
  \/ \E s \in ToolsServers, k \in {AppKind, UserKind, Removed} : Reload(s, k)
  \/ \E c \in ConnIds : Drop(c)
  \/ \E t \in Caller, s \in ToolsServers, u \in UserIds : startGetConnection(t, s, u, FALSE)
  \/ \E t \in Caller : getConnection(t)
  \/ \E t \in Caller : getUserConnection(t)
  \/ \E t \in Caller : userConnected(t)
  \/ \E t \in Caller : userConnectFails(t)
  \/ \E t \in Caller, u \in UserIds, s \in ToolsServers : startGetServerToolFunctions(t, u, s)
  \/ \E t \in Caller : getServerToolFunctions(t)
  \/ \E t \in Caller : inspected(t)
  \/ \E t \in Caller : inspectFails(t)

NextTools ==
  \/ \E t \in Caller : return(t)
  \/ NextToolsCalls

SpecTools == InitTools /\ [][NextTools]_vars

(* The declared tool functions of the servers, read while connections exist.  A     *)
(* declaration is tagged with the server that declares it                           *)
Declared(s, toolNames) == ToolFunctions({ << n, s >> : n \in toolNames })
FnsDeclarations(s) ==
  { NoToolFunctions, Declared(s, {}), Declared(s, {"f"}), Declared(s, {"g"}), Declared(s, {"f", "g"}) }
FnsRegistries ==
  { Registry([AppCfg EXCEPT !.toolFunctions = d1], [UserCfg EXCEPT !.toolFunctions = d2]) :
      d1 \in FnsDeclarations("s1"), d2 \in FnsDeclarations("s2") }
    \cup { Registry([AppCfg EXCEPT !.toolFunctions = d1], NoCfg) : d1 \in FnsDeclarations("s1") }

InitFns ==
  /\ instance = 1
  /\ created = 1
  /\ appReady = TRUE
  /\ initFailed = FALSE
  /\ registry \in FnsRegistries
  /\ InitRest

NextFnsCalls ==
  \/ \E c \in ConnIds : Drop(c)
  \/ \E t \in Caller, s \in Servers, u \in CallerIds : startGetConnection(t, s, u, FALSE)
  \/ \E t \in Caller : getConnection(t)
  \/ \E t \in Caller : getUserConnection(t)
  \/ \E t \in Caller : userConnected(t)
  \/ \E t \in Caller : userConnectFails(t)
  \/ \E t \in Caller : startGetAppToolFunctions(t)
  \/ \E t \in Caller : getAppToolFunctions(t, AllServerConfigs)

NextFns ==
  \/ \E t \in Caller : return(t)
  \/ NextFnsCalls

SpecFns == InitFns /\ [][NextFns]_vars

(* The instructions block for every small set of server configs and every short    *)
(* list of requested names; server names that are array indices ("1", "2") and      *)
(* names that are not ("a", "b"), a requested name no server has ("zz")             *)
InstrNames == {"a", "b", "1", "2"}
RequestedNames == InstrNames \cup {"zz"}
InstrTexts == { NoInstructions, Instructions(<< "X" >>), Instructions(<< >>) }

(* The entries of an object come in property order *)
PropertyOrdered(obj) ==
  \A i, j \in 1..Len(obj) :
    i < j => /\ obj[i][1] # obj[j][1]
             /\ obj[j][1] \in IntegerLike =>
                   (obj[i][1] \in IntegerLike /\ NumberOf(obj[i][1]) < NumberOf(obj[j][1]))

ConfigObjects ==
  { obj \in UNION { [1..n -> InstrNames \X { [AppCfg EXCEPT !.serverInstructions = x] : x \in InstrTexts }]
                     : n \in 0..MaxServers } :
      PropertyOrdered(obj) }

ServerNamesArgs ==
  {Omitted} \cup { Names(l) : l \in UNION { [1..n -> RequestedNames] : n \in 0..MaxNames } }

InitInstr ==
  /\ instance = 1
  /\ created = 1
  /\ appReady = TRUE
  /\ initFailed = FALSE
  /\ registry = Registry(AppCfg, UserCfg)
  /\ InitRest

NextInstrCalls ==
  \/ \E t \in Caller, serverNames \in ServerNamesArgs : startFormatInstructionsForContext(t, serverNames)
  \/ \E t \in Caller, configs \in ConfigObjects : formatInstructionsForContext(t, configs)

NextInstr ==
  \/ \E t \in Caller : return(t)
  \/ NextInstrCalls

SpecInstr == InitInstr /\ [][NextInstr]_vars

(* Readers of the registry while the configuration set is reloaded: the configs of *)
(* a loaded set all carry the number of the load (ver)                              *)
SnapConfigs(s, g) ==
  { [Cfg(g, FALSE, NoHeaders) EXCEPT !.toolFunctions = d, !.serverInstructions = x] :
      d \in {NoToolFunctions, Declared(s, {"f"})},
      x \in {NoInstructions, Instructions(<< "X" >>)} }
SnapSets(g) == { Registry(c1, c2) : c1 \in SnapConfigs("s1", g), c2 \in SnapConfigs("s2", g) }
SnapNames == { Omitted, Names(<< "s1" >>), Names(<< "s2", "s1" >>) }

InitSnap ==
  /\ instance = 1
  /\ created = 1
  /\ appReady = TRUE
  /\ initFailed = FALSE
  /\ registry \in SnapSets(1)
  /\ InitRest

NextSnapCalls ==
  \/ \E new \in SnapSets(reloads + 2) : ReloadAll(new)
  \/ \E t \in Caller : startGetAppToolFunctions(t)
  \/ \E t \in Caller : getAppToolFunctions(t, AllServerConfigs)
  \/ \E t \in Caller, serverNames \in SnapNames : startFormatInstructionsForContext(t, serverNames)
  \/ \E t \in Caller : formatInstructionsForContext(t, AllServerConfigs)

NextSnap ==
  \/ \E t \in Caller : return(t)
  \/ NextSnapCalls

SpecSnap == InitSnap /\ [][NextSnap]_vars

(* Repeated tool calls of one caller for s1 while its connections may drop. The     *)
(* server stays configured and reachable: every step that is awaited resolves, a  *)
(* connect that is attempted again and again eventually succeeds, and so does a    *)
(* request issued again and again on a live connection. A transport drops only     *)
(* while a fresh connection can still be established within MaxConns.              *)
RecoverRegistries == { Registry(AppCfg, NoCfg), Registry(AppCfgH, NoCfg), Registry(UserCfg, NoCfg) }

(* The caller: anonymous for the plain app-level server, the user u1 otherwise *)
RecoverUser == IF registry["s1"] = AppCfg THEN NoUser ELSE "u1"

InitRecover ==
  /\ instance = 1
  /\ created = 1
  /\ appReady = TRUE
  /\ initFailed = FALSE
  /\ registry \in RecoverRegistries
  /\ InitRest

RecoverableDrop(c) == NextId <= MaxConns /\ Drop(c)

(* The app-scope lookup ends with a connection cached for s1 *)
AppConnects(t) == getConnection(t) /\ appConnections'["s1"] # 0

NextRecoverCalls ==
  \/ \E c \in ConnIds : RecoverableDrop(c)
  \/ \E t \in Caller : startCallTool(t, "s1", RecoverUser, NoBody, "toolA", NoOptions)
  \/ \E t \in Caller : getConnection(t)
  \/ \E t \in Caller : getUserConnection(t)
  \/ \E t \in Caller : userConnected(t)
  \/ \E t \in Caller : userConnectFails(t)
  \/ \E t \in Caller : isConnected(t)
  \/ \E t \in Caller : callToolRequest(t)
  \/ \E t \in Caller : callToolDone(t)
  \/ \E t \in Caller : callToolFails(t, "RequestError")

NextRecover ==
  \/ \E t \in Caller : return(t)
  \/ NextRecoverCalls

FairRecover ==
  \A t \in Caller :
    /\ WF_vars(return(t))
    /\ WF_vars(startCallTool(t, "s1", RecoverUser, NoBody, "toolA", NoOptions))
    /\ WF_vars(getConnection(t))
    /\ SF_vars(AppConnects(t))
    /\ WF_vars(getUserConnection(t))
    /\ SF_vars(userConnected(t))
    /\ WF_vars(isConnected(t))
    /\ WF_vars(callToolRequest(t))
    /\ WF_vars(callToolDone(t) \/ callToolFails(t, "RequestError"))
    /\ SF_vars(callToolDone(t))

SpecRecover == InitRecover /\ [][NextRecover]_vars /\ FairRecover

(* The Statsig logger on its own: the SDK installed or missing, initialize, shutdown *)
(* and logEvent in any order                                                       *)
InitStatsig ==
  /\ instance = 0
  /\ created = 0
  /\ appReady = FALSE
  /\ initFailed = FALSE
  /\ registry = [s \in Servers |-> NoCfg]
  /\ InitManagerRest
  /\ \E installed \in BOOLEAN : InitLogger(installed)
  /\ InitCookieStore

NextStatsig ==
  \/ \E keySet \in BOOLEAN : statsigInitialize(keySet)
  \/ statsigInitialized
  \/ statsigInitializeFails
  \/ shutdown
  \/ \E metadata \in ArgKinds, opts \in ArgKinds, ctorThrows \in BOOLEAN, sdkThrows \in BOOLEAN :
        logEvent(metadata, opts, ctorThrows, sdkThrows)

SpecStatsig == InitStatsig /\ [][NextStatsig]_vars

(* The workspace cookie store on its own: stores and lookups while the clock advances *)
InitStore ==
  /\ instance = 0
  /\ created = 0
  /\ appReady = FALSE
  /\ initFailed = FALSE
  /\ registry = [s \in Servers |-> NoCfg]
  /\ InitRest

NextStore ==
  \/ Tick
  \/ \E u \in UserIds, cookie \in Cookies : storeWorkspaceCookie(u, cookie)
  \/ \E u \in UserIds : getStoredWorkspaceCookie(u)

SpecStore == InitStore /\ [][NextStore]_vars

(* Two users calling tools of a user-level server concurrently while the clock *)
(* advances: task t1 calls for u1, task t2 for u2                               *)
SweepUser(t) == IF t = "t1" THEN "u1" ELSE "u2"

InitSweep ==
  /\ instance = 1
  /\ created = 1
  /\ appReady = TRUE
  /\ initFailed = FALSE
  /\ registry = Registry(UserCfg, NoCfg)
  /\ InitRest

NextSweepCalls ==
  \/ Tick
  \/ \E t \in Tasks : startCallTool(t, "s1", SweepUser(t), NoBody, "toolA", NoOptions)
  \/ \E t \in Tasks : getConnection(t)
  \/ \E t \in Tasks : getUserConnection(t)
  \/ \E t \in Tasks : userConnected(t)
  \/ \E t \in Tasks : userConnectFails(t)
  \/ \E t \in Tasks : isConnected(t)
  \/ \E t \in Tasks : callToolRequest(t)
  \/ \E t \in Tasks : callToolDone(t)
  \/ \E t \in Tasks : callToolFails(t, "RequestError")

NextSweep ==
  \/ \E t \in Tasks : return(t)
  \/ NextSweepCalls

SpecSweep == InitSweep /\ [][NextSweep]_vars

(* Tool calls with per-call request options *)
OptionsRegistries == { Registry(AppCfg, NoCfg), Registry(UserCfg, NoCfg) }
Undefined == << "undefined" >>
CallerSignal == << "signal" >>
OptionSets ==
  { NoOptions,
    Options(<< >>),
    Options(<< << "signal", CallerSignal >> >>),
    Options(<< << "timeout", << "5000" >> >> >>),
    Options(<< << "timeout", Undefined >>, << "signal", CallerSignal >> >>),
    Options(<< << "signal", CallerSignal >>, << "resetTimeoutOnProgress", << "false" >> >> >>),
    Options(<< << "resetTimeoutOnProgress", << "false" >> >>, << "timeout", << "5000" >> >>,
               << "signal", CallerSignal >> >>) }

InitOptions ==
  /\ instance = 1
  /\ created = 1
  /\ appReady = TRUE
  /\ initFailed = FALSE
  /\ registry \in OptionsRegistries
  /\ InitRest

NextOptionsCalls ==
  \/ \E c \in ConnIds : Drop(c)
  \/ \E t \in Caller, u \in CallerIds \cup {NoUser}, options \in OptionSets :
        startCallTool(t, "s1", u, NoBody, "toolA", options)
  \/ \E t \in Caller : getConnection(t)
  \/ \E t \in Caller : getUserConnection(t)
  \/ \E t \in Caller : userConnected(t)
  \/ \E t \in Caller : userConnectFails(t)
  \/ \E t \in Caller : isConnected(t)
  \/ \E t \in Caller : callToolRequest(t)
  \/ \E t \in Caller : callToolDone(t)
  \/ \E t \in Caller : callToolFails(t, "Cancelled")

NextOptions ==
  \/ \E t \in Caller : return(t)
  \/ NextOptionsCalls

SpecOptions == InitOptions /\ [][NextOptions]_vars

----------------------------------------------------------------------------
(* Properties *)

ViaGetConnection(r) == r.op \in {"getConnection", "callTool", "getPrompt"}
UserPcs == {"userGet", "userWait", "userConnect"}

C2_DelegatesToUserScope ==
  \A t \in Tasks :
    LET r == tasks[t] IN
    (r.op = "getConnection" /\ r.app = 0 /\ HasId(r.u)) =>
      /\ r.ucalls = 1
      /\ r.ua = [s |-> r.s, u |-> r.u, fn |-> r.fn]
      /\ r.pc \in UserPcs \cup {"done"}
      /\ (r.pc = "done" => r.ures # Pending /\ r.res = r.ures)
      /\ (r.pc = "done" /\ r.res.k = "conn" =>
            /\ conns[r.res.c].owner = r.u
            /\ conns[r.res.c].srv = r.s
            /\ userConnections[r.u][r.s] = r.res.c)

C2_Witness ==
  \E t \in Tasks :
    /\ tasks[t].op = "getConnection" /\ tasks[t].pc = "done"
    /\ tasks[t].app = 0 /\ tasks[t].fn
    /\ tasks[t].res.k = "conn" /\ tasks[t].res.c > 1

C2_WitnessFailure ==
  \E t \in Tasks :
    /\ tasks[t].op = "getConnection" /\ tasks[t].pc = "done"
    /\ tasks[t].app = 0 /\ HasId(tasks[t].u)
    /\ tasks[t].res.e = "ConnectionError"

CacheEntries ==
  {<<"app", s>> : s \in {x \in Servers : appConnections[x] # 0}} \cup
  {p \in UserIds \X Servers : userConnections[p[1]][p[2]] # 0}

(* C3: when the app repository yields absent and there is no user id (no user, or a  *)
(* user without id), getConnection throws InvalidRequest with a message naming the   *)
(* server, and that step adds no entry to either cache.                              *)
C3_NoConnectionFound ==
  [][ \A t \in Tasks :
        ( /\ tasks[t].pc = "appGet" /\ tasks[t].op = "getConnection"
          /\ tasks'[t].app = 0 /\ ~HasId(tasks[t].u) ) =>
        /\ tasks'[t].pc = "done"
        /\ tasks'[t].res = ErrAbout("InvalidRequest", tasks[t].s)
        /\ tasks'[t].ucalls = 0
        /\ CacheEntries' \subseteq CacheEntries ]_vars

C3_Witness ==
  \E t \in Tasks :
    /\ tasks[t].op = "getConnection" /\ tasks[t].pc = "done"
    /\ tasks[t].u = AnonUser /\ tasks[t].app = 0
    /\ tasks[t].res = ErrAbout("InvalidRequest", tasks[t].s)

(* C4: the lookup of the app repository (by getConnection or getServerToolFunctions)  *)
(* never hands out an app connection that is disconnected or was created from a       *)
(* configuration that is no longer the server's current app-level one; a stale entry  *)
(* is disconnected and removed within the lookup, which then yields absent and        *)
(* establishes no replacement.                                                        *)
C4_NoStaleAppConnection ==
  [][ \A t \in Tasks :
        ( /\ tasks[t].pc \in {"appGet", "toolsGet"}
          /\ tasks[t].app = -1 /\ tasks'[t].app >= 0 ) =>
        LET s == tasks[t].s
            c == appConnections[s]
            a == tasks'[t].app
            current == registry[s] # NoCfg /\ ~registry[s].oauth
        IN  /\ a > 0 =>
                 /\ conns'[a].up /\ conns'[a].owner = "app" /\ conns'[a].srv = s
                 /\ current /\ conns'[a].ver = registry[s].ver
                 /\ appConnections'[s] = a
            /\ (c # 0 /\ (~conns[c].up \/ ~current \/ conns[c].ver # registry[s].ver)) =>
                 /\ a = 0
                 /\ appConnections'[s] = 0
                 /\ ~conns'[c].up
                 /\ Used' = Used ]_vars

C4_Witness ==
  \E t \in Tasks :
    LET r == tasks[t] IN
    /\ r.pc = "done" /\ r.op = "getConnection"
    /\ r.evicted # 0 /\ r.app = 0
    /\ ~conns[r.evicted].up /\ conns[r.evicted].owner = "app"
    /\ appConnections[r.s] = 0
    /\ AppLevel(r.s) /\ registry[r.s].ver > 1

(* C5: for every server at most one app-scope connection is live at any time. *)
C5_OneLiveAppConnection == \A s \in Servers : Cardinality(LiveApp(s)) <= 1

C5_Witness ==
  \E s \in Servers, c, d \in ConnIds :
    /\ c # d
    /\ appConnections[s] = c /\ conns[c].up /\ conns[c].owner = "app"
    /\ conns[d].owner = "app" /\ conns[d].srv = s /\ ~conns[d].up

(* C6: under every interleaving, for every (user, server) pair at most one user-scope *)
(* connection is live and it is the one the cache refers to, and no two callers are   *)
(* ever establishing a connection for the same pair at the same time.                 *)
C6_OneLiveUserConnection ==
  /\ \A u \in UserIds, s \in Servers :
        /\ Cardinality(LiveUser(u, s)) <= 1
        /\ LiveUser(u, s) \subseteq {userConnections[u][s]}
  /\ \A t1, t2 \in Tasks :
        (t1 # t2 /\ tasks[t1].pc = "userConnect" /\ tasks[t2].pc = "userConnect") =>
          <<tasks[t1].ua.u, tasks[t1].ua.s>> # <<tasks[t2].ua.u, tasks[t2].ua.s>>

C6_Witness ==
  \E t1, t2 \in Tasks :
    /\ t1 # t2
    /\ tasks[t1].pc = "done" /\ tasks[t2].pc = "done"
    /\ tasks[t1].op = "getConnection" /\ tasks[t2].op = "getConnection"
    /\ tasks[t1].ua = tasks[t2].ua /\ tasks[t1].ucalls = 1 /\ tasks[t2].ucalls = 1
    /\ tasks[t1].res.k = "conn" /\ tasks[t1].res = tasks[t2].res
    /\ conns[tasks[t1].res.c].up

(* C7: a user-scope connection a call holds belongs to the user of that call, so the *)
(* connections of two users are distinct instances; and the request headers of a     *)
(* user's connection are changed only by a call made for that user.                  *)
C7_UserConnectionsIsolated ==
  [][ /\ \A t \in Tasks :
          (ViaGetConnection(tasks'[t]) /\ tasks'[t].app = 0 /\ tasks'[t].conn # 0) =>
            conns'[tasks'[t].conn].owner = tasks'[t].u
      /\ \A c \in ConnIds :
          (conns[c].owner \in UserIds /\ conns'[c].hdr # conns[c].hdr /\ conns'[c].up) =>
            \E t \in Tasks :
              /\ tasks[t].pc \in {"getServerConfig", "promptHeaders"}
              /\ tasks'[t].pc # tasks[t].pc
              /\ tasks[t].conn = c
              /\ tasks[t].u = conns[c].owner ]_vars

C7_Witness ==
  \E s \in Servers :
    LET c1 == userConnections["u1"][s]
        c2 == userConnections["u2"][s]
    IN  /\ c1 # 0 /\ c2 # 0 /\ c1 # c2
        /\ conns[c1].up /\ conns[c2].up
        /\ conns[c1].hdr # conns[c2].hdr

(* C8: a user-less getConnection for a server whose app connection was handed to the *)
(* previous user-less getConnection, with no reload of that server and no drop of    *)
(* that connection since, returns that same instance and connects nothing.           *)
C8_SameAppConnectionAgain ==
  [][ \A t \in Tasks :
        ( /\ tasks[t].pc = "appGet" /\ tasks[t].op = "getConnection"
          /\ tasks[t].u = NoUser /\ tasks'[t] # tasks[t]
          /\ lastApp[tasks[t].s] # 0 ) =>
        /\ tasks'[t].pc = "done"
        /\ tasks'[t].res = ConnRes(lastApp[tasks[t].s])
        /\ conns' = conns
        /\ appConnections' = appConnections ]_vars

C8_Witness ==
  \E t \in Tasks :
    /\ tasks[t].op = "getConnection" /\ tasks[t].pc = "done" /\ tasks[t].u = NoUser
    /\ tasks[t].prev # 0 /\ tasks[t].res = ConnRes(tasks[t].prev)

(* C9: the idle sweep of a successful callTool removes a user's connection set,      *)
(* disconnecting every connection in it, exactly when that user's last activity is   *)
(* older than the idle threshold at the time of the sweep; every other set is left   *)
(* as it is, and the caller, whose activity was recorded just before the sweep,      *)
(* keeps every connection.                                                           *)
C9_IdleSweep ==
  [][ \A t \in Tasks :
        (tasks[t].pc = "request" /\ tasks'[t].pc = "done" /\ tasks'[t].res = OkRes) =>
        \A u \in UserIds :
          LET last == IF u = tasks[t].u THEN now ELSE userLastActivity[u]
              idle == last # NoTime /\ now - last > IdleTimeout
              removed == /\ userConnections'[u] = EmptyCache
                         /\ \A c \in UserSet(u) : ~conns'[c].up
              kept == /\ userConnections'[u] = userConnections[u]
                      /\ \A c \in UserSet(u) : conns'[c] = conns[c]
          IN  /\ UserSet(u) # {} => (removed <=> idle)
              /\ ~idle => kept
              /\ u = tasks[t].u => kept ]_vars

C9_Witness ==
  \E t \in Tasks :
    /\ tasks[t].pc = "done" /\ tasks[t].op = "callTool" /\ tasks[t].res = OkRes
    /\ tasks[t].swept # {}
    /\ HasId(tasks[t].u) /\ tasks[t].ucalls = 1
    /\ userConnections[tasks[t].u][tasks[t].s] = tasks[t].conn
    /\ conns[tasks[t].conn].up
    /\ userLastActivity[tasks[t].u] = now /\ now > IdleTimeout

(* C10: getInstance fails as long as createInstance was never called; at most one   *)
(* manager is ever created; a createInstance after the first throws and leaves the  *)
(* instance and its caches untouched.                                               *)
C10_Singleton ==
  [][ /\ created' <= 1
      /\ \A t \in Tasks :
          (tasks'[t].op = "getInstance" /\ tasks'[t].pc = "done") =>
            (tasks'[t].res.k = "error" <=> created' = 0)
      /\ \A t \in Tasks :
          (Free(t) /\ tasks'[t].op = "createInstance" /\ created >= 1) =>
            /\ tasks'[t].pc = "done"
            /\ tasks'[t].res = ErrRes("AlreadyInitialized")
            /\ instance' = instance /\ created' = created /\ appReady' = appReady
            /\ appConnections' = appConnections
            /\ userConnections' = userConnections
            /\ userLastActivity' = userLastActivity ]_vars

C10_Witness ==
  \E t \in Tasks :
    /\ tasks[t].op = "createInstance" /\ tasks[t].pc = "done"
    /\ tasks[t].res = ErrRes("AlreadyInitialized")
    /\ instance = 1 /\ created = 1

C12_ConnectionInactive ==
  [][ \A t \in Tasks :
        ( /\ tasks[t].pc = "isConnected" /\ tasks'[t] # tasks[t]
          /\ ~conns[tasks[t].conn].up ) =>
        /\ tasks'[t].pc = "done"
        /\ tasks'[t].res = [k |-> "error", c |-> 0, e |-> "InternalError",
                            n |-> tasks[t].s, tool |-> tasks[t].tool, text |-> << >>]
        /\ tasks'[t].sent = NoHeaders /\ tasks'[t].swept = {}
        /\ conns' = conns
        /\ appConnections' = appConnections /\ userConnections' = userConnections
        /\ userLastActivity' = userLastActivity ]_vars

C12_Witness ==
  \E t \in Tasks :
    LET r == tasks[t] IN
    /\ r.op = "callTool" /\ r.pc = "done" /\ r.conn # 0 /\ ~conns[r.conn].up
    /\ r.res.k = "error" /\ r.res.e = "InternalError"
    /\ r.res.n = r.s /\ r.res.tool = r.tool /\ r.tool = "toolB"
    /\ r.body.has /\ conns[r.conn].hdr = NoHeaders

(* C13: when a callTool whose body carries mcpCookies issues its tools/call request *)
(* on a live connection, the connection's headers carry the Cookie header derived   *)
(* from those cookies at that moment: the header is applied and the request issued  *)
(* in one step of the call, so that no other call's header change comes in between. *)
C13_CookieBeforeRequest ==
  [][ \A t \in Tasks :
        ( /\ tasks[t].op = "callTool" /\ tasks[t].body.has
          /\ tasks[t].pc # "request" /\ tasks'[t].pc = "request"
          /\ conns[tasks[t].conn].up ) =>
        LET cookie == <<"Cookie", JoinCookies(tasks[t].body.jar)>> IN
        /\ tasks[t].pc = "getServerConfig"
        /\ cookie \in conns'[tasks[t].conn].hdr
        /\ tasks'[t].sent = conns'[tasks[t].conn].hdr
        /\ \A p \in tasks'[t].sent : p[1] = "Cookie" => p = cookie ]_vars

C13_Witness ==
  \E t1, t2 \in Tasks :
    LET r1 == tasks[t1]
        r2 == tasks[t2]
    IN  /\ t1 # t2
        /\ r1.op = "callTool" /\ r1.pc = "request" /\ r1.body = BodyWith(<< <<"sid", "abc">> >>)
        /\ r2.op = "callTool" /\ r2.pc = "request" /\ r2.body = BodyWith(<< <<"sid", "xyz">> >>)
        /\ r1.conn = r2.conn /\ conns[r1.conn].up
        /\ <<"Cookie", <<"sid", "=", "abc">> >> \in r1.sent
        /\ <<"Cookie", <<"sid", "=", "xyz">> >> \in r2.sent

(* C14: the header map callTool applies is the server's current config headers with *)
(* the Cookie entry replaced by the serialized mcpCookies when the body carries     *)
(* them, every other config header kept; when that map is empty setRequestHeaders   *)
(* is not called and the connection's headers stay as they are.                     *)
C14_AppliedHeaders ==
  [][ \A t \in Tasks :
        ( /\ tasks[t].pc = "getServerConfig" /\ tasks'[t].pc = "request"
          /\ conns[tasks[t].conn].up ) =>
        LET r == tasks[t]
            cfg == registry[r.s].hdr
            expected == IF r.body.has
                        THEN {p \in cfg : p[1] # "Cookie"}
                               \cup {<<"Cookie", JoinCookies(r.body.jar)>>}
                        ELSE cfg
        IN  /\ expected # {} => conns'[r.conn].hdr = expected
            /\ expected = {} => conns'[r.conn].hdr = conns[r.conn].hdr
            /\ \A c \in ConnIds \ {r.conn} : conns'[c] = conns[c] ]_vars

C14_Witness ==
  \E t \in Tasks :
    LET r == tasks[t] IN
    /\ r.op = "callTool" /\ r.pc = "request" /\ conns[r.conn].up
    /\ registry[r.s].hdr = CookieHeaders
    /\ r.body = BodyWith(<< <<"sid", "abc">> >>)
    /\ r.sent = {<<"X-Key", <<"k">>>>, <<"Cookie", <<"sid", "=", "abc">>>>}
    /\ conns[r.conn].hdr = r.sent

(* the empty map: nothing applied, the headers of an earlier call stay *)
C14_WitnessEmpty ==
  \E t \in Tasks :
    LET r == tasks[t] IN
    /\ r.op = "callTool" /\ r.pc = "request" /\ conns[r.conn].up
    /\ registry[r.s].hdr = NoHeaders /\ ~r.body.has
    /\ conns[r.conn].hdr # NoHeaders

(* C15: for every cookie mapping, the Cookie value callTool and getPrompt put on the *)
(* connection is the same: the items name=value of the entries, in entry order,     *)
(* joined by "; ".                                                                 *)
SerializedCookies(jar) ==
  IF Len(jar) = 0 THEN << >>
  ELSE [i \in 1..(4 * Len(jar) - 1) |->
          LET e == jar[((i - 1) \div 4) + 1] IN
          CASE (i - 1) % 4 = 0 -> e[1]
            [] (i - 1) % 4 = 1 -> "="
            [] (i - 1) % 4 = 2 -> e[2]
            [] OTHER -> "; "]

C15_CookieSerialization ==
  /\ \A t \in Tasks :
        LET r == tasks[t] IN
        (r.pc \in {"request", "promptRequest"} /\ r.body.has /\ conns[r.conn].up) =>
          /\ <<"Cookie", SerializedCookies(r.body.jar)>> \in r.sent
          /\ \A p \in r.sent : p[1] = "Cookie" => p[2] = SerializedCookies(r.body.jar)
  /\ \A jar \in Jars : CookieHeader(BodyWith(jar)) = PromptCookieHeader(BodyWith(jar))

C15_Witness ==
  \E t1 \in Tasks :
    LET r == tasks[t1] IN
    /\ r.op = "getPrompt" /\ r.pc = "promptRequest"
    /\ r.body = BodyWith(<< <<"sid", "abc">>, <<"tok", "xyz">> >>)
    /\ r.sent = {<<"Cookie", <<"sid", "=", "abc", "; ", "tok", "=", "xyz">>>>}

C15_WitnessCallTool ==
  \E t1 \in Tasks :
    LET r == tasks[t1] IN
    /\ r.op = "callTool" /\ r.pc = "request"
    /\ r.body = BodyWith(<< <<"tok", "xyz">>, <<"sid", "abc">> >>)
    /\ r.sent = {<<"Cookie", <<"tok", "=", "xyz", "; ", "sid", "=", "abc">>>>}

(* C16: when the tools/call request of a callTool succeeds, the caller's activity   *)
(* (if it has an id) is recorded, then the idle sweep runs, once, then the result   *)
(* is formatted and returned: the call ends in that same step, the caller's         *)
(* timestamp is the time of completion, its connection set and every connection in  *)
(* it are untouched however old its previous activity was, the sets of the other    *)
(* idle users are gone; before that step the call has run no sweep.                 *)
C16_PostCallOrder ==
  [][ \A t \in Tasks :
        /\ (tasks'[t].op = "callTool" /\ tasks'[t].res \notin {OkRes, ErrRes("FormatError")}) =>
              tasks'[t].sweeps = 0
        /\ ( /\ tasks[t].pc = "request" /\ tasks'[t].pc = "done"
             /\ tasks'[t].res \in {OkRes, ErrRes("FormatError")} ) =>
            LET u == tasks[t].u IN
            /\ tasks[t].sweeps = 0 /\ tasks'[t].sweeps = 1
            /\ HasId(u) =>
                 /\ userLastActivity'[u] = now
                 /\ userConnections'[u] = userConnections[u]
                 /\ \A c \in UserSet(u) : conns'[c] = conns[c]
                 /\ u \notin tasks'[t].swept
            /\ \A v \in UserIds \ {u} :
                 (userLastActivity[v] # NoTime /\ now - userLastActivity[v] > IdleTimeout) =>
                   /\ userConnections'[v] = EmptyCache
                   /\ \A c \in UserSet(v) : ~conns'[c].up ]_vars

C16_Witness ==
  \E t \in Tasks :
    LET r == tasks[t] IN
    /\ r.op = "callTool" /\ r.pc = "done" /\ r.res = OkRes /\ r.sweeps = 1
    /\ HasId(r.u) /\ r.ucalls = 1 /\ r.ures.k = "conn"
    /\ now = MaxTime /\ userLastActivity[r.u] = now
    /\ userConnections[r.u][r.s] = r.conn /\ conns[r.conn].up
    /\ \E v \in UserIds \ {r.u} : v \in r.swept

C17_WitnessConnect ==
  \E t \in Tasks :
    LET r == tasks[t] IN
    /\ r.op = "callTool" /\ r.pc = "done" /\ r.conn = 0
    /\ r.ures = ErrAbout("ConnectionError", r.s) /\ r.res = r.ures

C17_WitnessFormat ==
  \E t \in Tasks :
    LET r == tasks[t] IN
    /\ r.op = "callTool" /\ r.pc = "done" /\ r.sweeps = 1
    /\ r.res = ErrRes("FormatError")

(* C18: a callTool whose tools/call request fails or is cancelled changes nothing   *)
(* but its own outcome: no connection is disconnected, both caches keep their       *)
(* entries, no activity is recorded and no idle sweep runs.                         *)
C18_FailedRequestFrame ==
  [][ \A t \in Tasks :
        ( /\ tasks[t].op = "callTool" /\ tasks[t].pc = "request" /\ tasks'[t].pc = "done"
          /\ tasks'[t].res \in {ErrRes("RequestError"), ErrRes("Cancelled")} ) =>
        /\ conns' = conns
        /\ appConnections' = appConnections
        /\ userConnections' = userConnections
        /\ userLastActivity' = userLastActivity
        /\ tasks'[t].sweeps = 0 /\ tasks'[t].swept = {} ]_vars

C18_Witness ==
  \E t \in Tasks :
    LET r == tasks[t] IN
    /\ r.op = "callTool" /\ r.pc = "done" /\ r.res = ErrRes("Cancelled")
    /\ HasId(r.u) /\ userConnections[r.u][r.s] = r.conn
    /\ conns[r.conn].up /\ r.sweeps = 0
    /\ r.sent # NoHeaders

C19_WitnessConnect ==
  \E t \in Tasks :
    LET r == tasks[t] IN
    /\ r.op = "getPrompt" /\ r.pc = "done" /\ HasId(r.u)
    /\ r.ures = ErrAbout("ConnectionError", r.s) /\ r.res = NullRes

C19_WitnessRequest ==
  \E t \in Tasks :
    LET r == tasks[t] IN
    /\ r.op = "getPrompt" /\ r.pc = "done" /\ r.conn # 0
    /\ r.raised = ErrRes("RequestError") /\ r.res = NullRes

(* The texts, joined by a blank line *)
RECURSIVE BlankLineJoined(_)
BlankLineJoined(texts) ==
  IF Len(texts) = 0 THEN << >>
  ELSE IF Len(texts) = 1 THEN Head(texts)
  ELSE Head(texts) \o << "\n\n" >> \o BlankLineJoined(Tail(texts))

TextsOf(messages) == [i \in 1..Len(messages) |-> messages[i].text]

(* C20 as stated: for a prompts/get result with at least one message getPrompt     *)
(* returns the texts of exactly the messages of type text, in order, joined by a    *)
(* blank line.                                                                      *)
C20_TextOfEveryTextMessage ==
  \A t \in Tasks :
    LET r == tasks[t] IN
    (r.op = "getPrompt" /\ r.pc = "done" /\ Len(r.msgs) > 0) =>
      /\ r.res.k = "ok"
      /\ r.res.text =
           BlankLineJoined(TextsOf(SelectSeq(r.msgs, LAMBDA m : m.type = "text")))

(* C20, amended: for a prompts/get result with at least one message getPrompt      *)
(* returns the texts of the messages of type text whose text is not empty, in      *)
(* order, joined by a blank line; a message of another type, and a text message    *)
(* with an empty text, contribute nothing and no separator.                        *)
C20_NonEmptyTexts ==
  \A t \in Tasks :
    LET r == tasks[t] IN
    (r.op = "getPrompt" /\ r.pc = "done" /\ Len(r.msgs) > 0) =>
      /\ r.res.k = "ok"
      /\ r.res.text =
           BlankLineJoined(TextsOf(SelectSeq(r.msgs,
                              LAMBDA m : m.type = "text" /\ m.text # << >>)))

C20_Witness ==
  \E t \in Tasks :
    LET r == tasks[t] IN
    /\ r.op = "getPrompt" /\ r.pc = "done"
    /\ r.msgs = << TextMessage(<<"A">>), TextMessage(<< >>) >>
    /\ r.res = ContentRes(<<"A">>)

C20_WitnessOrder ==
  \E t \in Tasks :
    LET r == tasks[t] IN
    /\ r.op = "getPrompt" /\ r.pc = "done"
    /\ r.msgs = << TextMessage(<<"B">>), TextMessage(<<"A">>) >>
    /\ r.res = ContentRes(<<"B", "\n\n", "A">>)

(* C21: when the prompts/get result is missing, has no messages field, or has an   *)
(* empty messages list, getPrompt returns null, and not an empty string.           *)
C21_NoMessagesIsNull ==
  \A t \in Tasks :
    LET r == tasks[t] IN
    (/\ r.op = "getPrompt" /\ r.pc = "done" /\ r.raised = Pending
     /\ (~r.result.present \/ ~r.result.hasMessages \/ r.result.messages = << >>)) =>
      /\ r.res = NullRes
      /\ r.res # ContentRes(<< >>)

C21_Witness ==
  \E t \in Tasks :
    LET r == tasks[t] IN
    /\ r.op = "getPrompt" /\ r.pc = "done" /\ r.raised = Pending
    /\ r.result = PromptResult(<< >>)
    /\ r.res = NullRes

C21_WitnessMissing ==
  \E t \in Tasks :
    LET r == tasks[t] IN
    /\ r.op = "getPrompt" /\ r.pc = "done" /\ r.raised = Pending
    /\ r.sent # NoHeaders
    /\ r.result = NoResult
    /\ r.res = NullRes

C21_WitnessNoField ==
  \E t \in Tasks :
    LET r == tasks[t] IN
    /\ r.op = "getPrompt" /\ r.pc = "done" /\ r.raised = Pending
    /\ r.result = ResultWithoutMessages
    /\ r.res = NullRes

(* C22: when a getPrompt whose body carries mcpCookies issues its prompts/get      *)
(* request on a live connection, the connection's headers are the Cookie header    *)
(* built from those cookies at that moment, whatever the connection carried before *)
(* and whichever cache it came from: the header is applied and the request issued  *)
(* in one step of the call, after the connection is resolved.                      *)
C22_PromptCookieBeforeRequest ==
  [][ \A t \in Tasks :
        ( /\ tasks[t].op = "getPrompt" /\ tasks[t].body.has
          /\ tasks[t].pc # "promptRequest" /\ tasks'[t].pc = "promptRequest"
          /\ conns[tasks[t].conn].up ) =>
        /\ tasks[t].pc = "promptHeaders"
        /\ conns'[tasks[t].conn].hdr = {<<"Cookie", SerializedCookies(tasks[t].body.jar)>>}
        /\ tasks'[t].sent = conns'[tasks[t].conn].hdr ]_vars

(* Reused from the user cache: two fetches of one user on one connection, each with its cookies *)
C22_Witness ==
  \E t1, t2 \in Tasks :
    LET r1 == tasks[t1]
        r2 == tasks[t2]
    IN  /\ t1 # t2
        /\ r1.op = "getPrompt" /\ r1.pc = "promptRequest" /\ r1.body = BodyWith(<< <<"sid", "abc">> >>)
        /\ r2.op = "getPrompt" /\ r2.pc = "promptRequest" /\ r2.body = BodyWith(<< <<"sid", "xyz">> >>)
        /\ r1.conn = r2.conn /\ conns[r1.conn].up /\ conns[r1.conn].owner = "u1"
        /\ r1.sent = {<<"Cookie", <<"sid", "=", "abc">> >>}
        /\ r2.sent = {<<"Cookie", <<"sid", "=", "xyz">> >>}

(* Reused from the app cache, after a tool call left its headers on the connection *)
C22_WitnessApp ==
  \E t1, t2 \in Tasks :
    LET r1 == tasks[t1]
        r2 == tasks[t2]
    IN  /\ t1 # t2
        /\ r1.op = "callTool" /\ r1.pc = "request" /\ StaticHeaders \subseteq r1.sent
        /\ r2.op = "getPrompt" /\ r2.pc = "promptRequest" /\ r2.body.has
        /\ r1.conn = r2.conn /\ conns[r1.conn].up /\ conns[r1.conn].owner = "app"
        /\ r2.sent = {<<"Cookie", <<"sid", "=", "abc">> >>}
        /\ conns[r2.conn].hdr = r2.sent

(* A user-scope connection that is the only one established so far, no other call in progress *)
C22_WitnessNew ==
  \E t1, t2 \in Tasks :
    /\ t1 # t2 /\ tasks[t2] = NoCall
    /\ tasks[t1].op = "getPrompt" /\ tasks[t1].pc = "promptRequest" /\ tasks[t1].body.has
    /\ conns[tasks[t1].conn].owner = "u1" /\ Used = {tasks[t1].conn}
    /\ tasks[t1].sent = {<<"Cookie", <<"sid", "=", "abc">> >>}

(* C23: getServerToolFunctions never throws: a finished call has the tool functions *)
(* or null as its result, never an error, whatever failed on the way (the app       *)
(* lookup, the user-set lookup, or the introspection, a rejected introspection      *)
(* promise included).                                                               *)
C23_GetServerToolFunctionsNeverThrows ==
  \A t \in Tasks :
    (tasks[t].op = "getServerToolFunctions" /\ tasks[t].pc = "done") =>
      tasks[t].res.k \in {"tools", "null"}

C24_WitnessApp ==
  \E t \in Tasks :
    LET r == tasks[t] IN
    /\ r.op = "getServerToolFunctions" /\ r.pc = "done"
    /\ r.res.k = "tools" /\ conns[r.res.c].owner = "app"
    /\ userConnections[r.u][r.s] # 0

(* The cached app connection is no longer valid: it is not introspected *)
C24_WitnessStale ==
  \E t \in Tasks :
    LET r == tasks[t] IN
    /\ r.op = "getServerToolFunctions" /\ r.pc = "done"
    /\ r.evicted # 0 /\ r.res = NullRes

(* C25: getAppToolFunctions returns a mapping whose keys are exactly the tool names  *)
(* declared by some configured server; a name declared by several servers maps to    *)
(* the declaration of the last of them in registry order; a server without declared  *)
(* functions contributes nothing; and the call changes neither connection cache nor  *)
(* any connection.                                                                   *)
C25_AppToolFunctions ==
  [][ \A t \in Tasks :
        ( /\ tasks[t].op = "getAppToolFunctions"
          /\ tasks[t].pc = "getAllServerConfigs" /\ tasks'[t].pc = "done" ) =>
        LET value == tasks'[t].value
            Declares(i, n) ==
              LET c == registry[ServerOrder[i]] IN
              c # NoCfg /\ c.toolFunctions.has /\ \E p \in c.toolFunctions.map : p[1] = n
            DeclaredNames ==
              { n \in {"f", "g"} : \E i \in 1..Len(ServerOrder) : Declares(i, n) }
        IN  /\ { p[1] : p \in value } = DeclaredNames
            /\ \A p, q \in value : p[1] = q[1] => p = q
            /\ \A p \in value :
                  \E i \in 1..Len(ServerOrder) :
                    /\ Declares(i, p[1])
                    /\ \A j \in (i + 1)..Len(ServerOrder) : ~Declares(j, p[1])
                    /\ p \in registry[ServerOrder[i]].toolFunctions.map
            /\ appConnections' = appConnections
            /\ userConnections' = userConnections
            /\ conns' = conns ]_vars

(* Both servers declare f, only the first declares g; connections of both scopes exist *)
C25_Witness ==
  \E t \in Tasks :
    /\ tasks[t].op = "getAppToolFunctions" /\ tasks[t].pc = "done"
    /\ tasks[t].value = { << "f", "s2" >>, << "g", "s1" >> }
    /\ appConnections["s1"] # 0
    /\ \E u \in UserIds : userConnections[u]["s2"] # 0

(* No server declares a function: the mapping is empty *)
C25_WitnessEmpty ==
  \E t \in Tasks :
    /\ tasks[t].op = "getAppToolFunctions" /\ tasks[t].pc = "done"
    /\ tasks[t].value = {}
    /\ registry["s1"].toolFunctions = NoToolFunctions
    /\ registry["s2"] # NoCfg /\ registry["s2"].toolFunctions = ToolFunctions({})

(* The servers a call selects: the requested names, or every server when the names *)
(* are omitted; and those of them that have instructions in the configs it read     *)
SelectedWithInstructions(r) ==
  { e[1] : e \in { r.configs[i] : i \in 1..Len(r.configs) } } \cap
  { n \in InstrNames :
      /\ r.names.given => \E i \in 1..Len(r.names.list) : r.names.list[i] = n
      /\ \E i \in 1..Len(r.configs) :
            r.configs[i][1] = n /\ r.configs[i][2].serverInstructions.has }

FormatDone(r) == r.op = "formatInstructionsForContext" /\ r.pc = "done"

C26_WitnessBlock ==
  \E t \in Tasks :
    LET r == tasks[t] IN
    /\ FormatDone(r) /\ r.names = Omitted
    /\ Len(r.configs) = 1 /\ r.configs[1][2].serverInstructions = Instructions(<< >>)
    /\ r.res.text # << >>

(* The server names of the section titles of a block, in the order of the sections *)
RECURSIVE SectionNames(_)
SectionNames(text) ==
  IF Len(text) < 2 THEN << >>
  ELSE IF Head(text) = "## " THEN << text[2] >> \o SectionNames(Tail(Tail(text)))
  ELSE SectionNames(Tail(text))

RECURSIVE FirstOccurrences(_)
FirstOccurrences(list) ==
  IF list = << >> THEN << >>
  ELSE << Head(list) >> \o FirstOccurrences(SelectSeq(Tail(list), LAMBDA x : x # Head(list)))

(* C27: the sections of formatInstructionsForContext's output appear in the order of *)
(* the serverNames argument when it is given, whatever the names (names that look    *)
(* like integers included), and in registry order when serverNames is omitted.       *)
C27_SectionOrder ==
  \A t \in Tasks :
    LET r == tasks[t]
        WithInstructions(n) == n \in SelectedWithInstructions(r)
    IN  FormatDone(r) =>
          SectionNames(r.res.text) =
            IF r.names.given
            THEN FirstOccurrences(SelectSeq(r.names.list, WithInstructions))
            ELSE SelectSeq(ObjectKeys(r.configs), WithInstructions)

(* C28: a non-empty output of formatInstructionsForContext contains exactly one     *)
(* section, titled "<serverName> MCP Server Instructions", for each selected server *)
(* that has instructions, and no other section (a requested name that is unknown,   *)
(* has no instructions or is repeated adds none), and it ends with the closing      *)
(* directive to follow those instructions.                                          *)
C28_OneSectionPerServer ==
  \A t \in Tasks :
    LET r == tasks[t]
        text == r.res.text
        titles == SectionNames(text)
    IN  (FormatDone(r) /\ text # << >>) =>
          /\ \A n \in SelectedWithInstructions(r) :
                Cardinality({ i \in 1..Len(titles) : titles[i] = n }) = 1
          /\ \A i \in 1..Len(titles) : titles[i] \in SelectedWithInstructions(r)
          /\ \A i \in 1..Len(text) :
                text[i] = "## " =>
                  (i + 2 <= Len(text) /\ text[i + 2] = " MCP Server Instructions")
          /\ text[Len(text)] =
                "Please follow these instructions when using tools from the respective MCP servers."

(* A repeated name and a server without instructions: one section *)
C28_Witness ==
  \E t \in Tasks :
    LET r == tasks[t] IN
    /\ FormatDone(r) /\ r.names = Names(<< "a", "a" >>)
    /\ Len(r.configs) = 2
    /\ \E i \in 1..2 : r.configs[i][1] = "b" /\ ~r.configs[i][2].serverInstructions.has
    /\ SectionNames(r.res.text) = << "a" >>

(* An unknown name beside a known one *)
C28_WitnessUnknown ==
  \E t \in Tasks :
    LET r == tasks[t] IN
    /\ FormatDone(r) /\ r.names = Names(<< "zz", "b" >>)
    /\ Len(r.configs) = 2
    /\ SectionNames(r.res.text) = << "b" >>

(* Every server, the names omitted *)
C28_WitnessAll ==
  \E t \in Tasks :
    LET r == tasks[t] IN
    /\ FormatDone(r) /\ r.names = Omitted
    /\ SectionNames(r.res.text) = << "1", "b" >>

(* C29: getInstructions called with an empty serverNames array returns the          *)
(* instructions of all servers, as when serverNames is not provided, so that         *)
(* formatInstructionsForContext([]) equals formatInstructionsForContext().           *)
C29_EmptyNamesMeansAll ==
  \A t \in Tasks :
    LET r == tasks[t] IN
    (FormatDone(r) /\ r.names.given /\ r.names.list = << >>) =>
      /\ r.res.text = FormatInstructions(getInstructions(r.configs, Omitted))
      /\ SectionNames(r.res.text) =
            SelectSeq(ObjectKeys(r.configs),
                      LAMBDA n : \E i \in 1..Len(r.configs) :
                                   r.configs[i][1] = n /\ r.configs[i][2].serverInstructions.has)

(* C30: whenever a registry reload interleaves with getAppToolFunctions or          *)
(* formatInstructionsForContext, the call's result is the result for one loaded     *)
(* configuration set, the one loaded before the reload or the one loaded by it:     *)
(* the configs the call read are all of one load, that load is the one current when *)
(* the call began or a later one, they are the whole set, and the result is         *)
(* computed from them alone.                                                        *)
C30_OneSnapshot ==
  \A t \in Tasks :
    LET r == tasks[t] IN
    (r.op \in {"getAppToolFunctions", "formatInstructionsForContext"} /\ r.pc = "done") =>
      \E g \in (r.gen + 1)..(reloads + 1) :
        /\ \E R \in SnapSets(g) :
              /\ r.configs = << << "s1", R["s1"] >>, << "s2", R["s2"] >> >>
              /\ g = reloads + 1 => R = registry
        /\ r.op = "getAppToolFunctions" =>
              r.value = AssignToolFunctions({}, ObjectValues(r.configs))
        /\ r.op = "formatInstructionsForContext" =>
              r.res.text = FormatInstructions(getInstructions(r.configs, r.names))

(* A reload came in while getAppToolFunctions was waiting for the configs; the sets differ *)
C30_Witness ==
  \E t \in Tasks :
    LET r == tasks[t] IN
    /\ r.op = "getAppToolFunctions" /\ r.pc = "done"
    /\ r.gen < reloads
    /\ r.value = { << "f", "s2" >> }
    /\ registry["s1"].toolFunctions = NoToolFunctions

(* The same for formatInstructionsForContext *)
C30_WitnessFormat ==
  \E t \in Tasks :
    LET r == tasks[t] IN
    /\ r.op = "formatInstructionsForContext" /\ r.pc = "done"
    /\ r.gen < reloads /\ r.names = Names(<< "s2", "s1" >>)
    /\ SectionNames(r.res.text) = << "s2", "s1" >>

----------------------------------------------------------------------------
(* C31: whenever the connection cached for s1 (in the app repository or under the  *)
(* caller's user id) has dropped, the repeated callTool invocations for s1          *)
(* eventually succeed on another, live connection: they do not fail with            *)
(* ConnectionInactive or 'No connection found' forever                              *)
CachedDropped(c) ==
  /\ ~conns[c].up
  /\ \/ appConnections["s1"] = c
     \/ \E u \in UserIds : userConnections[u]["s1"] = c

SucceededOnOther(c) ==
  \E t \in Caller :
    /\ tasks[t].op = "callTool"
    /\ tasks[t].pc = "done"
    /\ tasks[t].res = OkRes
    /\ tasks[t].conn # c
    /\ conns[tasks[t].conn].srv = "s1"

C31_Recovers == \A c \in ConnIds : CachedDropped(c) ~> SucceededOnOther(c)

(* An anonymous call succeeds on the app connection that replaced a dropped one *)
C31_Witness ==
  /\ SucceededOnOther(1)
  /\ conns[1].owner = "app" /\ ~conns[1].up
  /\ tasks["t1"].u = NoUser
  /\ conns[tasks["t1"].conn].owner = "app"
  /\ appConnections["s1"] = tasks["t1"].conn

(* A user's call succeeds on the user connection that replaced a dropped one *)
C31_WitnessUser ==
  /\ SucceededOnOther(1)
  /\ conns[1].owner = "u1" /\ ~conns[1].up
  /\ conns[tasks["t1"].conn].owner = "u1"

----------------------------------------------------------------------------
(* C32: logEvent never throws to its caller, whatever the state of the logger and  *)
(* whatever its arguments                                                         *)
C32_LogEventNeverThrows == ~logged.threw

(* C32, second half: while no Statsig object is held (never initialised, failed,  *)
(* shut down, SDK missing) logEvent returns without reaching the SDK              *)
C32_NoInstanceNoOp ==
  [][\A metadata \in ArgKinds, opts \in ArgKinds, ctorThrows \in BOOLEAN, sdkThrows \in BOOLEAN :
       (statsigInstance = "null" /\ logEvent(metadata, opts, ctorThrows, sdkThrows))
         => (~logged'.threw /\ ~logged'.reached /\ ~logged'.sent)]_vars

(* logEvent was called with null metadata on an initialised logger *)
C32_ThrowsOnNullMetadata ==
  /\ logged.called /\ logged.threw
  /\ logged.metadata = "null" /\ logged.opts = "omitted"
  /\ statsigInstance = "ready"

----------------------------------------------------------------------------
(* C33: the idle sweep run by one user's successful callTool never disconnects a  *)
(* connection on which another user's tools/call request is still in flight      *)
C33_SweepSparesInFlight ==
  [][ \A t \in Tasks, w \in Tasks :
        ( /\ t # w
          /\ tasks[t].op = "callTool" /\ tasks[t].pc = "request"
          /\ tasks'[t].pc = "done" /\ tasks'[t].res = OkRes
          /\ tasks[w].op = "callTool" /\ tasks[w].pc = "request"
          /\ tasks[w].u # tasks[t].u
          /\ conns[tasks[w].conn].up )
        => conns'[tasks[w].conn].up ]_vars

(* u2's call has just succeeded and its sweep closed the connection of u1's request in flight *)
C33_SweptInFlight ==
  /\ tasks["t2"].op = "callTool" /\ tasks["t2"].pc = "done" /\ tasks["t2"].res = OkRes
  /\ tasks["t2"].swept = {"u1"}
  /\ tasks["t1"].op = "callTool" /\ tasks["t1"].pc = "request"
  /\ ~conns[tasks["t1"].conn].up
  /\ conns[tasks["t1"].conn].owner = "u1"

----------------------------------------------------------------------------
(* C34: a tools/call or prompts/get request carries a Cookie header only if it is *)
(* the one derived from the mcpCookies of that very call, or a static header of   *)
(* the server's configuration: never the Cookie of another caller's or an earlier *)
(* request                                                                        *)
C34_NoForeignCookie ==
  \A t \in Tasks :
    (tasks[t].op \in {"callTool", "getPrompt"} /\ tasks[t].pc \in {"request", "promptRequest"}) =>
    \A h \in tasks[t].sent :
      h[1] = "Cookie" =>
        \/ tasks[t].body.has /\ h \in CookieHeader(tasks[t].body)
        \/ h \in registry[tasks[t].s].hdr

(* A call of u2 without mcpCookies, on the shared app connection of a server *)
(* without static headers, goes out with a Cookie header                     *)
C34_ForeignCookieSent ==
  \E t \in Tasks :
    /\ tasks[t].op = "callTool" /\ tasks[t].pc = "request"
    /\ tasks[t].u = "u2" /\ ~tasks[t].body.has
    /\ registry[tasks[t].s].hdr = NoHeaders
    /\ conns[tasks[t].conn].owner = "app"
    /\ \E h \in tasks[t].sent : h[1] = "Cookie"

----------------------------------------------------------------------------
(* C35: the connection on which callTool issues the tools/call request is        *)
(* connected at the moment the request is issued                                 *)
C35_ConnectedAtRequest ==
  [][ \A t \in Tasks :
        ( /\ tasks[t].op = "callTool"
          /\ tasks[t].pc = "getServerConfig"
          /\ tasks'[t].pc = "request" )
        => conns[tasks[t].conn].up ]_vars

(* u1's request was issued on the connection that u2's idle sweep closed after *)
(* u1's isConnected check                                                      *)
C35_RequestOnClosed ==
  /\ tasks["t1"].op = "callTool" /\ tasks["t1"].pc = "request"
  /\ ~conns[tasks["t1"].conn].up
  /\ tasks["t1"].sweeps = 0
  /\ userConnections["u1"]["s1"] # tasks["t1"].conn
  /\ userLastActivity["u1"] = NoTime

----------------------------------------------------------------------------
(* C36: getInstance returns a manager only when its initialization has completed *)
(* successfully, i.e. when its app connection repository has been set            *)
C36_InitializedManagerOnly ==
  \A t \in Tasks :
    (tasks[t].op = "getInstance" /\ tasks[t].pc = "done" /\ tasks[t].res.k = "manager")
      => appReady

(* After a failed initialize, getInstance hands out the manager without repository *)
C36_ManagerAfterFailedInit ==
  \E t \in Tasks :
    /\ tasks[t].op = "getInstance" /\ tasks[t].pc = "done" /\ tasks[t].res = MgrRes(instance)
    /\ initFailed /\ ~appReady
    /\ \A w \in Tasks : tasks[w].pc # "initialize"

(* ... and a later createInstance does not retry: it throws *)
C36_NoRetry ==
  \E t \in Tasks :
    /\ tasks[t].op = "createInstance" /\ tasks[t].pc = "done"
    /\ tasks[t].res = ErrRes("AlreadyInitialized")
    /\ initFailed /\ ~appReady
    /\ \A w \in Tasks : tasks[w].pc # "initialize"

----------------------------------------------------------------------------
(* C37: getPrompt never returns the empty string: a result without usable text *)
(* gives null, as a result without messages does                               *)
C37_NeverEmptyString ==
  \A t \in Tasks :
    (tasks[t].op = "getPrompt" /\ tasks[t].pc = "done") => tasks[t].res # ContentRes(<< >>)

(* One message of another type than text: getPrompt returns '' *)
C37_EmptyForNonText ==
  \E t \in Tasks :
    /\ tasks[t].op = "getPrompt" /\ tasks[t].pc = "done"
    /\ Len(tasks[t].msgs) > 0
    /\ \A i \in 1..Len(tasks[t].msgs) : tasks[t].msgs[i].type # "text"
    /\ tasks[t].res = ContentRes(<< >>)

(* Only text messages with an empty text: getPrompt returns '' *)
C37_EmptyForEmptyText ==
  \E t \in Tasks :
    /\ tasks[t].op = "getPrompt" /\ tasks[t].pc = "done"
    /\ Len(tasks[t].msgs) > 0
    /\ \A i \in 1..Len(tasks[t].msgs) : tasks[t].msgs[i] = TextMessage(<< >>)
    /\ tasks[t].res = ContentRes(<< >>)

----------------------------------------------------------------------------
(* C38: the options of the tools/call request are the caller's per-call options   *)
(* laid over {timeout: the connection's own timeout, resetTimeoutOnProgress:      *)
(* true}: every key the caller supplies has the caller's value (its signal         *)
(* included), the two defaults stand for the keys the caller does not supply, and *)
(* there is no other key                                                          *)
GivenOptions(r) == IF r.options.given THEN r.options.obj ELSE << >>

DefaultOption(r, key) ==
  IF key = "timeout" THEN ConnectionTimeout(r.conn) ELSE << "true" >>

C38_RequestOptions ==
  \A t \in Tasks :
    LET r == tasks[t]
        given == GivenOptions(r)
        keys == {"timeout", "resetTimeoutOnProgress"} \cup {given[i][1] : i \in 1..Len(given)}
    IN  (r.op = "callTool" /\ r.pc = "request") =>
          /\ {r.request[i][1] : i \in 1..Len(r.request)} = keys
          /\ Len(r.request) = Cardinality(keys)
          /\ \A key \in keys :
               ValueOf(r.request, key) =
                 IF HasKey(given, key) THEN ValueOf(given, key) ELSE DefaultOption(r, key)

(* The caller overrides the timeout and passes a signal *)
C38_Witness ==
  \E t \in Tasks :
    /\ tasks[t].op = "callTool" /\ tasks[t].pc = "request"
    /\ HasKey(GivenOptions(tasks[t]), "timeout")
    /\ HasKey(tasks[t].request, "signal")
    /\ ValueOf(tasks[t].request, "timeout") = << "5000" >>
    /\ ValueOf(tasks[t].request, "signal") = CallerSignal
    /\ ValueOf(tasks[t].request, "resetTimeoutOnProgress") = << "false" >>

(* The caller supplies neither key: the defaults, on the second connection *)
C38_WitnessDefaults ==
  \E t \in Tasks :
    /\ tasks[t].op = "callTool" /\ tasks[t].pc = "request"
    /\ tasks[t].options = Options(<< << "signal", CallerSignal >> >>)
    /\ tasks[t].conn = 2
    /\ tasks[t].request = << << "timeout", ConnectionTimeout(2) >>,
                             << "resetTimeoutOnProgress", << "true" >> >>,
                             << "signal", CallerSignal >> >>

(* The options argument is omitted altogether *)
C38_WitnessOmitted ==
  \E t \in Tasks :
    /\ tasks[t].op = "callTool" /\ tasks[t].pc = "request"
    /\ ~tasks[t].options.given
    /\ tasks[t].request = << << "timeout", ConnectionTimeout(tasks[t].conn) >>,
                             << "resetTimeoutOnProgress", << "true" >> >> >>

----------------------------------------------------------------------------
(* C39 as stated: getStoredWorkspaceCookie(u) returns the cookie most recently    *)
(* stored for exactly the user id u if that was less than 5 minutes before, and   *)
(* null otherwise                                                                 *)
StoredInTime(l) == l.last.has /\ l.at - l.last.timestamp < CACHE_TTL

C39_ReturnsStoredCookie ==
  lookup.called =>
    IF StoredInTime(lookup)
    THEN ~lookup.null /\ lookup.cookie = lookup.last.cookie
    ELSE lookup.null

(* C39, amended: getStoredWorkspaceCookie(u) returns the value part of the cookie *)
(* most recently stored for exactly the user id u (the cookie as given, without   *)
(* a leading "_workspacex_key=") if that was less than 5 minutes before, and null *)
(* otherwise; what is stored under another user id is never returned              *)
ValuePart(cookie) ==
  IF Len(cookie) > 0 /\ cookie[1] = WorkspaceKeyPrefix
  THEN SubSeq(cookie, 2, Len(cookie)) ELSE cookie

C39_ReturnsStoredValue ==
  lookup.called =>
    IF StoredInTime(lookup)
    THEN ~lookup.null /\ lookup.cookie = ValuePart(lookup.last.cookie)
    ELSE lookup.null

(* u1's cookie, stored with its key name, is returned without it while u2 holds another *)
C39_Witness ==
  /\ lookup.called /\ lookup.u = "u1" /\ ~lookup.null
  /\ lookup.last.cookie = << WorkspaceKeyPrefix, "abc" >>
  /\ lookup.cookie = << "abc" >>
  /\ lookup.at > lookup.last.timestamp
  /\ storeCalls["u2"].has /\ storeCalls["u2"].cookie = << "xyz" >>

(* A cookie stored exactly CACHE_TTL before the lookup is no longer returned *)
C39_WitnessExpired ==
  /\ lookup.called /\ lookup.null
  /\ lookup.last.has /\ lookup.at - lookup.last.timestamp = CACHE_TTL
  /\ \E u \in UserIds : u # lookup.u /\ Unexpired(workspaceCookieStore[u])

============================================================================
